---- MODULE Spec2Model ----
(***************************************************************************)
(* MARlea engine: a chemical reaction network simulated by trials.  The    *)
(* module models Solution (apply, validate), ReactionNetwork (possible and *)
(* null adjacent reactions, weighted selection, react) and the stability   *)
(* state machine of Trial::step.                                           *)
(***************************************************************************)
EXTENDS Integers, Sequences, FiniteSets, TLC

VARIABLES
    prime_network,    \* the ReactionNetwork handed to the trials (ReactionNetwork::new)
    trials,           \* id -> Trial
    panicked,         \* id -> "none", or why the thread stepping the trial panicked
    tape,             \* seed -> the draws made on the stream of StdRng::from_seed(seed) that a trial of the seed has still to make
    overflow_checks,  \* TRUE: build with overflow checks (dev profile); FALSE: wrapping arithmetic (release profile)
    observed,         \* id -> what the last step() of the trial did (history, not program state)
    engine,           \* the MarleaEngine that Builder::build returns; its processing_trials are `trials`
    run,              \* MarleaEngine::run: its position, its locals and what it returned
    channel,          \* the sync_channel of Builder::new: the messages sent and not yet received, the messages received, whether the Receiver was dropped
    now,              \* the last reading of std::time::Instant::now()
    calc              \* a call of Solution::add or average_trials outside a run: its operands and what it returned

trial_vars == <<prime_network, trials, panicked, tape, overflow_checks, observed>>

engine_vars == <<engine, run, channel, now>>

vars == <<prime_network, trials, panicked, tape, overflow_checks, observed,
          engine, run, channel, now, calc>>

----
\* Bounds of the model.

\* largest count of a species in an initial solution
MaxCount == 2
\* largest max_semi_stable_steps handed to Trial::from
MaxTolerance == 1
\* step() is called at most this many times on one trial
MaxSteps == 3
\* largest num_trials of a Builder
MaxTrials == 2
\* latest reading of the clock, in seconds after the first
MaxTime == 1
\* rounds of a run that fills the response channel
MaxRounds == 131

Names == {"A", "B"}
Seeds == {1, 2}

----
\* Name, Count, Term, Reaction.

\* derive(Ord) on Name(String): the order of the strings
NameRank(n) == IF n = "A" THEN 1 ELSE 2

Term(n, c) == [species_name |-> n, coefficient |-> c]

Reaction(re, pr, rate) == [reactants |-> re, products |-> pr, reaction_rate |-> rate]

\* Count(u64).  A count v >= 0 stands for itself; v < 0 stands for the wrapped
\* value 2^64 + v, which is what a release build holds after a subtraction below 0.
\* unsigned a > b
CountGt(a, b) ==
    IF a >= 0 /\ b >= 0 THEN a > b
    ELSE IF a < 0 /\ b < 0 THEN a > b
    ELSE a < 0

\* the reactions networks are built from: no reactants, one reactant, a
\* coefficient above 1, two terms of one species, two terms of two species,
\* no products, rates 1 and 2
ReactionPool ==
    { Reaction(<<>>, <<Term("A", 1)>>, 1),
      Reaction(<<Term("A", 1)>>, <<Term("B", 1)>>, 2),
      Reaction(<<Term("B", 1)>>, <<>>, 1),
      Reaction(<<Term("A", 1), Term("A", 1)>>, <<Term("B", 1)>>, 1),
      Reaction(<<Term("A", 2), Term("B", 1)>>, <<Term("B", 2)>>, 1) }

----
\* Solution.

\* a reactant that is not taken from the solution
SubTerm_skipped(acc, term) == acc

\* one `entry(name).and_modify(|c| c.0 -= k)`: acc is [solution, overflowed]
SubTerm(acc, term) ==
    LET n == term.species_name
        k == term.coefficient
        s == acc.solution
    IN  IF n \in DOMAIN s
        THEN [solution   |-> [s EXCEPT ![n] = s[n] - k],
              overflowed |-> acc.overflowed \/ (s[n] >= 0 /\ s[n] - k < 0)]
        ELSE acc

\* an `entry(name).or_insert(0)` before the addition: the product is inserted
AddTerm_inserts(acc, term) ==
    LET n == term.species_name
        k == term.coefficient
        s == acc.solution
    IN  IF n \in DOMAIN s
        THEN [solution   |-> [s EXCEPT ![n] = s[n] + k],
              overflowed |-> acc.overflowed \/ (s[n] < 0 /\ s[n] + k >= 0)]
        ELSE [solution   |-> (n :> k) @@ s,
              overflowed |-> acc.overflowed]

\* one `entry(name).and_modify(|c| c.0 += k)`
AddTerm(acc, term) ==
    LET n == term.species_name
        k == term.coefficient
        s == acc.solution
    IN  IF n \in DOMAIN s
        THEN [solution   |-> [s EXCEPT ![n] = s[n] + k],
              overflowed |-> acc.overflowed \/ (s[n] < 0 /\ s[n] + k >= 0)]
        ELSE acc

RECURSIVE SubTerms(_, _, _)
SubTerms(acc, terms, i) ==
    IF i > Len(terms) THEN acc ELSE SubTerms(SubTerm(acc, terms[i]), terms, i + 1)

RECURSIVE AddTerms(_, _, _)
AddTerms(acc, terms, i) ==
    IF i > Len(terms) THEN acc ELSE AddTerms(AddTerm(acc, terms[i]), terms, i + 1)

\* Solution::apply: the reactants are subtracted in order, then the products
\* added in order; `overflowed` says that one of the u64 operations left 0..2^64-1
apply(solution, reaction) ==
    AddTerms(SubTerms([solution |-> solution, overflowed |-> FALSE],
                      reaction.reactants, 1),
             reaction.products, 1)

\* a validate that takes a reactant whose name the solution lacks as unsatisfied
RECURSIVE validate_from_absent_unsatisfied(_, _, _)
validate_from_absent_unsatisfied(solution, terms, i) ==
    IF i > Len(terms) THEN TRUE
    ELSE IF terms[i].species_name \notin DOMAIN solution
            \/ CountGt(terms[i].coefficient, solution[terms[i].species_name])
         THEN FALSE
         ELSE validate_from_absent_unsatisfied(solution, terms, i + 1)

\* Solution::validate: the loop over the reactants with its break
RECURSIVE validate_from(_, _, _)
validate_from(solution, terms, i) ==
    IF i > Len(terms) THEN TRUE
    ELSE IF terms[i].species_name \in DOMAIN solution
            /\ CountGt(terms[i].coefficient, solution[terms[i].species_name])
         THEN FALSE
         ELSE validate_from(solution, terms, i + 1)

validate(solution, reaction) == validate_from(solution, reaction.reactants, 1)

\* impl Add for Solution: one entry per entry of self, its count plus the count
\* rhs has for the name, 0 if rhs has none
add(self, rhs) ==
    [name \in DOMAIN self |->
        self[name] + (IF name \in DOMAIN rhs THEN rhs[name] ELSE 0)]

----
\* Reaction order.  possible_reactions and null_adjacent_reactions are
\* BTreeSet<Reaction>: they iterate in the order of Reaction, lexicographic over
\* reactants, products and rate, a Term ordered by name and then coefficient.

TermLess(a, b) ==
    \/ NameRank(a.species_name) < NameRank(b.species_name)
    \/ a.species_name = b.species_name /\ a.coefficient < b.coefficient

RECURSIVE TermsLess(_, _, _)
TermsLess(a, b, i) ==
    IF i > Len(b) THEN FALSE
    ELSE IF i > Len(a) THEN TRUE
    ELSE IF TermLess(a[i], b[i]) THEN TRUE
    ELSE IF TermLess(b[i], a[i]) THEN FALSE
    ELSE TermsLess(a, b, i + 1)

ReactionLess(a, b) ==
    \/ TermsLess(a.reactants, b.reactants, 1)
    \/ a.reactants = b.reactants /\ TermsLess(a.products, b.products, 1)
    \/ a.reactants = b.reactants /\ a.products = b.products
       /\ a.reaction_rate < b.reaction_rate

\* a set of reactions in ascending order
RECURSIVE Sorted(_)
Sorted(set) ==
    IF set = {} THEN <<>>
    ELSE LET first == CHOOSE r \in set : \A o \in set \ {r} : ReactionLess(r, o)
         IN  <<first>> \o Sorted(set \ {first})

\* the reactions of the scenario networks that ReactionPool lacks: A -> B of
\* rate 1 and A -> (nothing)
ScenarioReactions ==
    { Reaction(<<Term("A", 1)>>, <<Term("B", 1)>>, 1),
      Reaction(<<Term("A", 1)>>, <<>>, 1) }

PoolOrder == Sorted(ReactionPool \cup ScenarioReactions)

\* the sequence a BTreeSet<Reaction> iterates: its elements in ascending order
iter(set) == SelectSeq(PoolOrder, LAMBDA r : r \in set)

----
\* ReactionNetwork.

\* secondary_reactions matching the products of both reactions
secondary_reactions_by_product(reaction, reactions) ==
    { s \in reactions :
        \E p \in 1..Len(reaction.products) : \E q \in 1..Len(s.products) :
            reaction.products[p].species_name = s.products[q].species_name }

\* the inner loops of gen_null_adjacent_reactions: every reaction with a
\* reactant of a species that `reaction` produces
secondary_reactions(reaction, reactions) ==
    { s \in reactions :
        \E p \in 1..Len(reaction.products) : \E q \in 1..Len(s.reactants) :
            reaction.products[p].species_name = s.reactants[q].species_name }

\* the outer loop of gen_null_adjacent_reactions over the HashSet, `found` being
\* null_adjacent_reactions so far
RECURSIVE gen_null_adjacent_loop(_, _, _)
gen_null_adjacent_loop(found, todo, reactions) ==
    IF todo = {} THEN found
    ELSE LET reaction == CHOOSE r \in todo : TRUE
             next == IF reaction.reactants = <<>> /\ reaction \notin found
                     THEN found \cup {reaction} \cup secondary_reactions(reaction, reactions)
                     ELSE found
         IN  gen_null_adjacent_loop(next, todo \ {reaction}, reactions)

gen_null_adjacent_reactions(reactions) == gen_null_adjacent_loop({}, reactions, reactions)

\* find_possible_reactions without the validate filter
find_possible_reactions_unvalidated(reactions, solution) == reactions

find_possible_reactions(reactions, solution) ==
    { r \in reactions : validate(solution, r) }

RECURSIVE sum_rates(_, _)
sum_rates(seq, i) ==
    IF i > Len(seq) THEN 0 ELSE seq[i].reaction_rate + sum_rates(seq, i + 1)

sum_possible_reaction_rates(possible_reactions) == sum_rates(iter(possible_reactions), 1)

Err == [ok |-> FALSE]
Ok(reaction) == [ok |-> TRUE, value |-> reaction]

\* the loop of get_next_reaction with an inclusive comparison
RECURSIVE next_reaction_loop_inclusive(_, _, _)
next_reaction_loop_inclusive(seq, i, index) ==
    IF i > Len(seq) THEN Err
    ELSE IF seq[i].reaction_rate >= index THEN Ok(seq[i])
    ELSE next_reaction_loop_inclusive(seq, i + 1, index - seq[i].reaction_rate)

\* the loop of get_next_reaction over possible_reactions, from the i-th on
RECURSIVE next_reaction_loop(_, _, _)
next_reaction_loop(seq, i, index) ==
    IF i > Len(seq) THEN Err
    ELSE IF seq[i].reaction_rate > index THEN Ok(seq[i])
    ELSE next_reaction_loop(seq, i + 1, index - seq[i].reaction_rate)

\* get_next_reaction once gen_range has drawn `index`
get_next_reaction(possible_reactions, index) ==
    next_reaction_loop(iter(possible_reactions), 1, index)

\* ReactionNetwork::new
new(reactions, solution, seed) ==
    [reactions               |-> reactions,
     possible_reactions      |-> find_possible_reactions(reactions, solution),
     null_adjacent_reactions |-> gen_null_adjacent_reactions(reactions),
     solution                |-> solution,
     prng                    |-> 0,
     seed                    |-> seed]

\* ReactionNetwork::with_seed
with_seed(network, seed) == [network EXCEPT !.seed = seed, !.prng = 0]

\* a react() that panicked
stopped(network, why) == [reaction_network |-> network, panic |-> why, reacts |-> <<>>]

\* a react() that applies the reaction and keeps possible_reactions as it was
react_apply_stale(network, index, reaction, applied, checks) ==
    IF checks /\ applied.overflowed THEN stopped(network, "overflow")
    ELSE [reaction_network |->
            [network EXCEPT !.solution = applied.solution,
                            !.prng = network.prng + 1],
          panic |-> "none",
          reacts |-> <<[reaction |-> reaction, index |-> index,
                        solution |-> network.solution,
                        possible_reactions |-> network.possible_reactions]>>]

\* a react() that recomputes null_adjacent_reactions from the reactions that
\* are possible after it
react_apply_regenerates(network, index, reaction, applied, checks) ==
    IF checks /\ applied.overflowed THEN stopped(network, "overflow")
    ELSE [reaction_network |->
            [network EXCEPT
                !.solution = applied.solution,
                !.possible_reactions =
                    find_possible_reactions(network.reactions, applied.solution),
                !.null_adjacent_reactions =
                    gen_null_adjacent_reactions(
                        find_possible_reactions(network.reactions, applied.solution)),
                !.prng = network.prng + 1],
          panic |-> "none",
          reacts |-> <<[reaction |-> reaction, index |-> index,
                        solution |-> network.solution,
                        possible_reactions |-> network.possible_reactions]>>]

\* react() from `self.solution.apply(next_reaction)` on, `applied` being what
\* apply computes
react_apply(network, index, reaction, applied, checks) ==
    IF checks /\ applied.overflowed THEN stopped(network, "overflow")
    ELSE [reaction_network |->
            [network EXCEPT
                !.solution = applied.solution,
                !.possible_reactions =
                    find_possible_reactions(network.reactions, applied.solution),
                !.prng = network.prng + 1],
          panic |-> "none",
          reacts |-> <<[reaction |-> reaction, index |-> index,
                        solution |-> network.solution,
                        possible_reactions |-> network.possible_reactions]>>]

\* react() from the unwrap() of what get_next_reaction returned on
react_unwrap(network, index, next_reaction, checks) ==
    IF ~next_reaction.ok THEN stopped(network, "unwrap_err")
    ELSE react_apply(network, index, next_reaction.value,
                     apply(network.solution, next_reaction.value), checks)

\* react() once gen_range has drawn `index`
react_index(network, index, checks) ==
    react_unwrap(network, index,
                 get_next_reaction(network.possible_reactions, index), checks)

\* react() once sum_possible_reaction_rates has returned max_index:
\* prng.gen_range(0..max_index) panics on an empty range, and draws `index`
\* otherwise
react_range(network, max_index, index, checks) ==
    IF max_index = 0 THEN stopped(network, "empty_range")
    ELSE react_index(network, index, checks)

\* ReactionNetwork::react, `index` being what prng.gen_range(0..max_index)
\* draws.  The result is the network afterwards, the panic that ended the call
\* ("none": it returned) and the reaction applied.
react(network, index, checks) ==
    react_range(network, sum_possible_reaction_rates(network.possible_reactions),
                index, checks)

----
\* Trial.

Initial == [tag |-> "Initial", count |-> 0]
Unstable == [tag |-> "Unstable", count |-> 0]
SemiStable(count) == [tag |-> "SemiStable", count |-> count]
Stable == [tag |-> "Stable", count |-> 0]

\* Trial::from
from(reaction_network, max_semi_stable_steps, id) ==
    [reaction_network      |-> reaction_network,
     stability             |-> Initial,
     step_counter          |-> 0,
     max_semi_stable_steps |-> max_semi_stable_steps,
     id                    |-> id]

is_subset(a, b) == a \subseteq b

\* the Initial and Unstable arms with the subset test made first
after_react_unstable_subset_first(network) ==
    IF is_subset(network.possible_reactions, network.null_adjacent_reactions)
    THEN SemiStable(0)
    ELSE IF network.possible_reactions = {} THEN Stable
    ELSE Unstable

\* the Initial and Unstable arms of Trial::step after their react()
after_react_unstable(network) ==
    IF network.possible_reactions = {} THEN Stable
    ELSE IF is_subset(network.possible_reactions, network.null_adjacent_reactions)
         THEN SemiStable(0)
    ELSE Unstable

\* the SemiStable(count) arm with an inclusive tolerance
after_react_semi_stable_inclusive(network, count, max_semi_stable_steps) ==
    IF network.possible_reactions = {}
    THEN [stability |-> Stable, again |-> FALSE]
    ELSE IF is_subset(network.possible_reactions, network.null_adjacent_reactions)
            /\ count <= max_semi_stable_steps
         THEN [stability |-> SemiStable(count + 1), again |-> TRUE]
    ELSE IF is_subset(network.possible_reactions, network.null_adjacent_reactions)
            /\ count > max_semi_stable_steps
         THEN [stability |-> Stable, again |-> TRUE]
    ELSE [stability |-> Unstable, again |-> FALSE]

\* the SemiStable(count) arm without the tolerance: it counts on for ever
after_react_semi_stable_no_tolerance(network, count, max_semi_stable_steps) ==
    IF network.possible_reactions = {}
    THEN [stability |-> Stable, again |-> FALSE]
    ELSE IF is_subset(network.possible_reactions, network.null_adjacent_reactions)
         THEN [stability |-> SemiStable(count + 1), again |-> TRUE]
    ELSE [stability |-> Unstable, again |-> FALSE]

\* the SemiStable(count) arm counting two per step
after_react_semi_stable_by_two(network, count, max_semi_stable_steps) ==
    IF network.possible_reactions = {}
    THEN [stability |-> Stable, again |-> FALSE]
    ELSE IF is_subset(network.possible_reactions, network.null_adjacent_reactions)
            /\ count < max_semi_stable_steps
         THEN [stability |-> SemiStable(count + 2), again |-> TRUE]
    ELSE IF is_subset(network.possible_reactions, network.null_adjacent_reactions)
            /\ count >= max_semi_stable_steps
         THEN [stability |-> Stable, again |-> TRUE]
    ELSE [stability |-> Unstable, again |-> FALSE]

\* the SemiStable(count) arm of Trial::step after its first react(): the new
\* stability, and whether react() is called once more
after_react_semi_stable(network, count, max_semi_stable_steps) ==
    IF network.possible_reactions = {}
    THEN [stability |-> Stable, again |-> FALSE]
    ELSE IF is_subset(network.possible_reactions, network.null_adjacent_reactions)
            /\ count < max_semi_stable_steps
         THEN [stability |-> SemiStable(count + 1), again |-> TRUE]
    ELSE IF is_subset(network.possible_reactions, network.null_adjacent_reactions)
            /\ count >= max_semi_stable_steps
         THEN [stability |-> Stable, again |-> TRUE]
    ELSE [stability |-> Unstable, again |-> FALSE]

\* a Stable arm that starts over
after_stable_unstable == Unstable

\* the Stable arm of Trial::step
after_stable == Stable

\* a step() that panicked
step_stopped(trial, why, reacts) == [trial |-> trial, panic |-> why, reacts |-> reacts]

\* a step() whose counter counts the reactions it applied
step_returned_counts_reactions(trial, network, stability, reacts) ==
    [trial |-> [trial EXCEPT !.reaction_network = network,
                             !.stability = stability,
                             !.step_counter = trial.step_counter + Len(reacts)],
     panic |-> "none",
     reacts |-> reacts]

\* a step() that returned: `self.step_counter += 1` ends it
step_returned(trial, network, stability, reacts) ==
    [trial |-> [trial EXCEPT !.reaction_network = network,
                             !.stability = stability,
                             !.step_counter = trial.step_counter + 1],
     panic |-> "none",
     reacts |-> reacts]

\* the SemiStable arm after the second react()
step_second(trial, first, stability, second) ==
    IF second.panic # "none" THEN step_stopped(trial, second.panic, first.reacts)
    ELSE step_returned(trial, second.reaction_network, stability,
                       first.reacts \o second.reacts)

\* the SemiStable arm without its second react()
step_semi_stable_once(trial, first, arm, index, checks) ==
    step_returned(trial, first.reaction_network, arm.stability, first.reacts)

\* the SemiStable arm after the first react()
step_semi_stable(trial, first, arm, index, checks) ==
    IF ~arm.again
    THEN step_returned(trial, first.reaction_network, arm.stability, first.reacts)
    ELSE step_second(trial, first, arm.stability,
                     react(first.reaction_network, index, checks))

\* the Initial, Unstable and SemiStable arms after their first react()
step_first(trial, first, index, checks) ==
    IF first.panic # "none" THEN step_stopped(trial, first.panic, <<>>)
    ELSE IF trial.stability.tag \in {"Initial", "Unstable"}
    THEN step_returned(trial, first.reaction_network,
                       after_react_unstable(first.reaction_network), first.reacts)
    ELSE step_semi_stable(trial, first,
            after_react_semi_stable(first.reaction_network, trial.stability.count,
                                    trial.max_semi_stable_steps),
            index, checks)

\* Trial::step, first and second being what the first and the second gen_range
\* of the step draw.  The result is the trial afterwards, the panic that ended
\* the call ("none": it returned) and the reactions applied, in order.
step(trial, first, second, checks) ==
    IF trial.stability.tag = "Stable"
    THEN step_returned(trial, trial.reaction_network, after_stable, <<>>)
    ELSE step_first(trial, react(trial.reaction_network, first, checks),
                    second, checks)

----
\* MarleaEngine::average_trials.

\* the identity closure of the reduce: Solution{species_counts: HashMap::new()}
identity == [name \in {} |-> 0]

\* one task of the parallel reduce: rayon folds the items of the task from
\* identity(), the value so far being the left operand of `a + b`
RECURSIVE fold(_, _, _)
fold(a, sim_states, i) ==
    IF i > Len(sim_states) THEN a
    ELSE fold(add(a, sim_states[i]), sim_states, i + 1)

\* into_par_iter().reduce(identity, |a, b| a + b): the results the splits of
\* sim_states into tasks can give, the results of two halves being added
RECURSIVE reduce(_)
reduce(sim_states) ==
    {fold(identity, sim_states, 1)}
    \cup UNION { { add(a, b) : a \in reduce(SubSeq(sim_states, 1, k)),
                                b \in reduce(SubSeq(sim_states, k + 1, Len(sim_states))) } :
                  k \in 1..(Len(sim_states) - 1) }

RECURSIVE gcd(_, _)
gcd(a, b) == IF b = 0 THEN a ELSE gcd(b, a % b)

\* Avg((count.0 as f64) / (no_states as f64)): the quotient, as a fraction in
\* lowest terms (a wrapped count is kept as it is)
Avg(count, no_states) ==
    IF count < 0 THEN [num |-> count, den |-> no_states]
    ELSE [num |-> count \div gcd(count, no_states),
          den |-> no_states \div gcd(count, no_states)]

\* list.par_sort_by(|a, b| a.0.partial_cmp(&b.0)): the pairs by Name ascending
RECURSIVE sort_by_name(_)
sort_by_name(pairs) ==
    IF pairs = {} THEN <<>>
    ELSE LET first == CHOOSE p \in pairs :
                        \A q \in pairs : NameRank(p[1]) <= NameRank(q[1])
         IN  <<first>> \o sort_by_name(pairs \ {first})

\* average_trials from `let avg = sum.species_counts...` on
average_of(sum, no_states) ==
    sort_by_name({ <<name, Avg(sum[name], no_states)>> : name \in DOMAIN sum })

\* MarleaEngine::average_trials: the lists it can return
average_trials(sim_states) ==
    { average_of(sum, Len(sim_states)) : sum \in reduce(sim_states) }

----
\* The generator.  StdRng::from_seed(seed) is one stream per seed, so what
\* gen_range(0..max_index) draws is decided by the seed, the number of draws made
\* before it and max_index.  tape[seed] holds the draws made on the stream of
\* `seed`, [max_index, index] each, from the position of the slowest trial of
\* that seed that can still draw.

\* the trials of a seed that can still draw
Readers(seed, ts, pn) ==
    { j \in DOMAIN ts : /\ ts[j].reaction_network.seed = seed
                        /\ pn[j] = "none"
                        /\ ts[j].stability.tag # "Stable"
                        /\ ts[j].step_counter < MaxSteps }

\* the position of the stream at which tape[seed] starts
Base(seed, ts, pn) ==
    LET at == { ts[j].reaction_network.prng : j \in Readers(seed, ts, pn) }
    IN  CHOOSE m \in at : \A o \in at : m <= o

----
\* The state after construction and the operations.

Networks == SUBSET ReactionPool

Solutions == UNION { [keys -> 0..MaxCount] : keys \in SUBSET Names \ {{}} }

NoStep == [reacts |-> <<>>, semi_entry |-> 0, stable_at |-> 0]

\* ReactionNetwork::new, then one Trial::from(prime.clone().with_seed(seed), ..)
\* per id, as Builder::build and get_timeline make them
InitOf(ids, networks, solutions, tolerances, seedings) ==
    /\ overflow_checks \in BOOLEAN
    /\ \E reactions \in networks, solution \in solutions :
            prime_network = new(reactions, solution, CHOOSE seed \in Seeds : TRUE)
    /\ \E max_semi_stable_steps \in tolerances, seeding \in seedings :
            trials = [id \in ids |->
                        from(with_seed(prime_network, seeding[id]),
                             max_semi_stable_steps, id)]
    /\ panicked = [id \in ids |-> "none"]
    /\ tape = [seed \in Seeds |-> <<>>]
    /\ observed = [id \in ids |-> NoStep]

\* a generator seeded from entropy: a draw is decided by nothing
Draws_from_entropy(old, k, max_index) ==
    IF max_index = 0 THEN {0} ELSE 0..(max_index - 1)

\* what gen_range(0..max_index) can draw at the k-th position of the tape `old`
Draws(old, k, max_index) ==
    IF max_index = 0 THEN {0}
    ELSE IF k <= Len(old) /\ old[k].max_index = max_index THEN {old[k].index}
    ELSE 0..(max_index - 1)

\* the range of the first gen_range of a step of `trial`
first_range(trial) ==
    IF trial.stability.tag = "Stable" THEN 0
    ELSE sum_possible_reaction_rates(trial.reaction_network.possible_reactions)

\* the range of the second gen_range of a step of `trial`, `first` being what the
\* first react() of the step returned
second_range(trial, first) ==
    IF trial.stability.tag = "SemiStable" /\ first.panic = "none"
       /\ after_react_semi_stable(first.reaction_network, trial.stability.count,
                                  trial.max_semi_stable_steps).again
    THEN sum_possible_reaction_rates(first.reaction_network.possible_reactions)
    ELSE 0

\* what a step leaves of tape[seed]: the draws of the stream, from the position
\* of the slowest trial that can still draw
tape_left(old, off, reacts, drop, live) ==
    IF ~live THEN <<>>
    ELSE SubSeq([k \in 1..(IF off + Len(reacts) > Len(old) THEN off + Len(reacts)
                           ELSE Len(old)) |->
                    IF k <= Len(old) THEN old[k]
                    ELSE [max_index |-> sum_possible_reaction_rates(
                                            reacts[k - off].possible_reactions),
                          index |-> reacts[k - off].index]],
                drop + 1,
                IF off + Len(reacts) > Len(old) THEN off + Len(reacts) ELSE Len(old))

\* the history of a trial after a step: the reactions the step applied, each
\* with the solution and the possible reactions it was drawn on
observe(was, trial, res) ==
    [reacts |-> [k \in 1..Len(res.reacts) |->
                    [reaction |-> res.reacts[k].reaction,
                     solution |-> res.reacts[k].solution,
                     possible_reactions |-> res.reacts[k].possible_reactions]],
     semi_entry |->
        IF res.panic = "none" /\ res.trial.stability = SemiStable(0)
        THEN res.trial.step_counter ELSE was.semi_entry,
     stable_at |->
        IF res.panic = "none" /\ res.trial.stability = Stable /\ trial.stability # Stable
        THEN res.trial.step_counter ELSE was.stable_at]

\* the state a call of step() on trial id leaves, `res` being what step computes
Stepped(id, seed, reads, off, res, ts, pn) ==
    /\ trials' = ts
    /\ panicked' = pn
    /\ tape' = IF reads
               THEN [tape EXCEPT ![seed] =
                        tape_left(tape[seed], off, res.reacts,
                                  IF Readers(seed, ts, pn) = {} THEN 0
                                  ELSE Base(seed, ts, pn) - Base(seed, trials, panicked),
                                  Readers(seed, ts, pn) # {})]
               ELSE tape
    /\ observed' = [observed EXCEPT ![id] = observe(observed[id], trials[id], res)]

\* trials that were not cloned: the step of one writes the solution of all
StepWith_shared_solution(id, seed, reads, off, res) ==
    Stepped(id, seed, reads, off, res,
            [other \in DOMAIN trials |->
                IF other = id THEN res.trial
                ELSE [trials[other] EXCEPT !.reaction_network.solution =
                                                res.trial.reaction_network.solution]],
            [panicked EXCEPT ![id] = res.panic])

StepWith(id, seed, reads, off, res) ==
    Stepped(id, seed, reads, off, res,
            [trials EXCEPT ![id] = res.trial], [panicked EXCEPT ![id] = res.panic])

StepAt(id, seed, reads, off) ==
    \E first \in Draws(tape[seed], off + 1, first_range(trials[id])) :
        \E second \in Draws(tape[seed], off + 2,
                            second_range(trials[id],
                                react(trials[id].reaction_network, first, overflow_checks))) :
            StepWith(id, seed, reads, off,
                     step(trials[id], first, second, overflow_checks))

StepFrom(id, seed, reads) ==
    StepAt(id, seed, reads,
           IF reads THEN trials[id].reaction_network.prng - Base(seed, trials, panicked)
           ELSE 0)

\* one call of step() on trial id
Step(id) ==
    /\ panicked[id] = "none"
    /\ trials[id].step_counter < MaxSteps
    /\ StepFrom(id, trials[id].reaction_network.seed,
                id \in Readers(trials[id].reaction_network.seed, trials, panicked))
    /\ UNCHANGED <<prime_network, overflow_checks>>

\* Option
None == [some |-> FALSE]
Some(value) == [some |-> TRUE, value |-> value]

\* Builder::build: the engine and the channel of a Builder with these settings
Built(num_trials, max_runtime, runtime_return) ==
    /\ engine = [num_trials       |-> num_trials,
                 max_runtime      |-> max_runtime,
                 runtime_return   |-> runtime_return,
                 completed_trials |-> [id \in {} |-> 0],
                 step_counter     |-> 0]
    /\ run = [pc |-> "built", timer |-> None, step_results |-> [id \in {} |-> 0],
              sending |-> None, result |-> None]
    /\ channel = [queue |-> <<>>, received |-> <<>>, dropped |-> FALSE]
    /\ now = 0

\* one trial, stepped by its owner
\* no call outside a run
NoCalc == [sim_states |-> <<>>, sums |-> None, list |-> None]

Init ==
    /\ InitOf({0}, Networks, Solutions, 0..MaxTolerance, [{0} -> {1}])
    /\ Built(1, None, "None")
    /\ calc = NoCalc

Next == \E id \in DOMAIN trials : Step(id) /\ UNCHANGED <<engine_vars, calc>>

Spec == Init /\ [][Next]_vars

\* two trials of one prime network, as Builder::build clones them and as
\* get_timeline rebuilds a trial from its seed
InitSeed ==
    /\ InitOf({0, 1}, { n \in Networks : Cardinality(n) <= 2 },
              [Names -> 0..MaxCount], {MaxTolerance},
              { seeds \in [{0, 1} -> Seeds] : seeds[0] = 1 })
    /\ Built(2, None, "None")
    /\ calc = NoCalc

SpecSeed == InitSeed /\ [][Next]_vars

----
\* MarleaEngine::run.

\* MarleaResult
Intermediary(avg) == [tag |-> "Intermediary", avg |-> avg]
Final(avg) == [tag |-> "Final", avg |-> avg]

\* Result::Err(MarleaEngineError::ExceededRuntime(..))
ExceededRuntime == [ok |-> FALSE, error |-> "ExceededRuntime"]

\* TrialState
Processing(id, sln) == [tag |-> "Processing", id |-> id, sln |-> sln]
Complete(id, sln) == [tag |-> "Complete", id |-> id, sln |-> sln]

\* Trial::get_solution
get_solution(trial) == trial.reaction_network.solution

\* the TrialState that step() returns, `trial` being the trial after the step
step_state(trial) ==
    IF trial.stability = Stable THEN Complete(trial.id, get_solution(trial))
    ELSE Processing(trial.id, get_solution(trial))

\* the orders in which a HashMap can iterate over the keys `ids`
RECURSIVE orders(_)
orders(ids) ==
    IF ids = {} THEN {<<>>}
    ELSE UNION { { <<id>> \o order : order \in orders(ids \ {id}) } : id \in ids }

\* the capacity of sync_channel(128)
sync_channel_bound == 128

\* `let timer = ...`: the deadline, from the first reading of the clock
RunStart ==
    /\ run.pc = "built"
    /\ run' = [run EXCEPT !.pc = "while",
                          !.timer = IF engine.max_runtime.some
                                    THEN Some(now + engine.max_runtime.value)
                                    ELSE None]
    /\ UNCHANGED <<calc, trial_vars, engine, channel, now>>

\* a loop that is left one trial short of num_trials
While_one_short ==
    /\ run.pc = "while"
    /\ run' = IF Cardinality(DOMAIN engine.completed_trials) + 1 < engine.num_trials
              THEN [run EXCEPT !.pc = "step", !.step_results = [id \in {} |-> 0]]
              ELSE [run EXCEPT !.pc = "final"]
    /\ UNCHANGED <<calc, trial_vars, engine, channel, now>>

\* `while self.completed_trials.len() < self.num_trials`
While ==
    /\ run.pc = "while"
    /\ run' = IF Cardinality(DOMAIN engine.completed_trials) < engine.num_trials
              THEN [run EXCEPT !.pc = "step", !.step_results = [id \in {} |-> 0]]
              ELSE [run EXCEPT !.pc = "final"]
    /\ UNCHANGED <<calc, trial_vars, engine, channel, now>>

\* one `trial.1.step()` of the par_iter_mut of a round; a panic of the step is
\* the panic of run()
RunStep(id) ==
    /\ run.pc = "step"
    /\ id \notin DOMAIN run.step_results
    /\ Step(id)
    /\ run' = IF panicked'[id] # "none" THEN [run EXCEPT !.pc = "panicked"]
              ELSE [run EXCEPT !.step_results = @ @@ (id :> step_state(trials'[id]))]
    /\ UNCHANGED <<calc, engine, channel, now>>

\* a match of a round none of whose arms sends
sends_intermediary_never(runtime_return) == FALSE

\* `MarleaReturn::Full(ref tx)` of the match of a round: the arm that sends
sends_intermediary(runtime_return) == runtime_return = "Full"

\* a last match all of whose arms send
sends_final_always(runtime_return) == TRUE

\* the arms of the last match that send: Full and Minimal
sends_final(runtime_return) == runtime_return \in {"Full", "Minimal"}

\* the ids of the TrialState::Complete of a round
complete_ids(step_results) ==
    { step_results[id].id : id \in { i \in DOMAIN step_results :
                                        step_results[i].tag = "Complete" } }

\* a match whose arms insert the completed trials and leave them in
\* processing_trials
moved_keeps_processing(processing_trials, completed_trials, ids) ==
    [processing_trials |-> processing_trials,
     completed_trials  |-> [id \in ids |-> processing_trials[id]] @@ completed_trials]

\* a match that ends the run of every trial with the first Complete of a round
moved_all_at_once(processing_trials, completed_trials, ids) ==
    IF ids = {}
    THEN [processing_trials |-> processing_trials,
          completed_trials  |-> completed_trials]
    ELSE [processing_trials |-> [id \in {} |-> 0],
          completed_trials  |-> processing_trials @@ completed_trials]

\* the three arms of `match self.runtime_return` move the completed trials
moved(processing_trials, completed_trials, ids) ==
    [processing_trials |-> [id \in DOMAIN processing_trials \ ids |-> processing_trials[id]],
     completed_trials  |-> [id \in ids |-> processing_trials[id]] @@ completed_trials]

\* the solutions of `order`, in that order
solutions_of(order, sln_of) == [k \in 1..Len(order) |-> sln_of[order[k]]]

\* the round once every step has returned: step_counter += 1 and the match on
\* runtime_return, up to the send of the Full arm
Match ==
    /\ run.pc = "step"
    /\ DOMAIN run.step_results = DOMAIN trials
    /\ trials' = moved(trials, engine.completed_trials,
                       complete_ids(run.step_results)).processing_trials
    /\ engine' = [engine EXCEPT
                    !.step_counter = @ + 1,
                    !.completed_trials =
                        moved(trials, engine.completed_trials,
                              complete_ids(run.step_results)).completed_trials]
    /\ IF sends_intermediary(engine.runtime_return)
       THEN \E order \in orders(DOMAIN run.step_results) :
                \E sln_avg \in average_trials(
                        solutions_of(order, [id \in DOMAIN run.step_results |->
                                                run.step_results[id].sln])) :
                    run' = [run EXCEPT !.pc = "send",
                                      !.sending = Some(Intermediary(sln_avg))]
       ELSE run' = [run EXCEPT !.pc = "deadline"]
    /\ UNCHANGED <<calc, prime_network, panicked, tape, overflow_checks, observed, channel, now>>

\* a send whose error is ignored: with the Receiver dropped the message is lost
\* and run() goes on
Send_ignores_error ==
    /\ run.pc = "send"
    /\ IF channel.dropped
       THEN UNCHANGED channel
       ELSE /\ Len(channel.queue) < sync_channel_bound
            /\ channel' = [channel EXCEPT !.queue = Append(@, run.sending.value)]
    /\ run' = IF run.sending.value.tag = "Final"
              THEN [run EXCEPT !.pc = "returned", !.sending = None,
                               !.result = Some(Ok(run.sending.value))]
              ELSE [run EXCEPT !.pc = "deadline", !.sending = None]
    /\ UNCHANGED <<calc, trial_vars, engine, now>>

\* a send on a channel without a bound
Send_unbounded ==
    /\ run.pc = "send"
    /\ IF channel.dropped
       THEN /\ run' = [run EXCEPT !.pc = "panicked"]
            /\ UNCHANGED channel
       ELSE /\ channel' = [channel EXCEPT !.queue = Append(@, run.sending.value)]
            /\ run' = IF run.sending.value.tag = "Final"
                      THEN [run EXCEPT !.pc = "returned", !.sending = None,
                                       !.result = Some(Ok(run.sending.value))]
                      ELSE [run EXCEPT !.pc = "deadline", !.sending = None]
    /\ UNCHANGED <<calc, trial_vars, engine, now>>

\* tx.send(..).expect(..) / .unwrap(): an error if the Receiver was dropped, the
\* message queued if the channel has room, and blocked otherwise; after a Final
\* run() returns it
Send ==
    /\ run.pc = "send"
    /\ IF channel.dropped
       THEN /\ run' = [run EXCEPT !.pc = "panicked"]
            /\ UNCHANGED channel
       ELSE /\ Len(channel.queue) < sync_channel_bound
            /\ channel' = [channel EXCEPT !.queue = Append(@, run.sending.value)]
            /\ run' = IF run.sending.value.tag = "Final"
                      THEN [run EXCEPT !.pc = "returned", !.sending = None,
                                       !.result = Some(Ok(run.sending.value))]
                      ELSE [run EXCEPT !.pc = "deadline", !.sending = None]
    /\ UNCHANGED <<calc, trial_vars, engine, now>>

\* a deadline branch that would hand out the partial average as a Final
Deadline_sends_partial_average ==
    /\ run.pc = "deadline"
    /\ IF run.timer.some
       THEN \E t \in now..MaxTime :
                /\ now' = t
                /\ IF run.timer.value > t
                   THEN /\ run' = [run EXCEPT !.pc = "returned",
                                              !.result = Some(ExceededRuntime)]
                        /\ \E order \in orders(DOMAIN run.step_results) :
                              \E sln_avg \in average_trials(
                                    solutions_of(order, [id \in DOMAIN run.step_results |->
                                                            run.step_results[id].sln])) :
                                  channel' = [channel EXCEPT
                                                !.queue = Append(@, Final(sln_avg))]
                   ELSE /\ run' = [run EXCEPT !.pc = "while"]
                        /\ UNCHANGED channel
       ELSE /\ run' = [run EXCEPT !.pc = "while"]
            /\ UNCHANGED <<now, channel>>
    /\ UNCHANGED <<calc, trial_vars, engine>>

\* `if let Some(time) = timer { if time > Instant::now() { return Err(..) } }`,
\* t being what Instant::now() reads
Deadline ==
    /\ run.pc = "deadline"
    /\ IF run.timer.some
       THEN \E t \in now..MaxTime :
                /\ now' = t
                /\ run' = IF run.timer.value > t
                          THEN [run EXCEPT !.pc = "returned",
                                           !.result = Some(ExceededRuntime)]
                          ELSE [run EXCEPT !.pc = "while"]
       ELSE /\ run' = [run EXCEPT !.pc = "while"]
            /\ UNCHANGED now
    /\ UNCHANGED <<calc, trial_vars, engine, channel>>

\* after the loop: final_avg over completed_trials.values(), then the match on
\* runtime_return up to its send
FinalAverage ==
    /\ run.pc = "final"
    /\ \E order \in orders(DOMAIN engine.completed_trials) :
         \E final_avg \in average_trials(
                solutions_of(order, [id \in DOMAIN engine.completed_trials |->
                                        get_solution(engine.completed_trials[id])])) :
            run' = IF sends_final(engine.runtime_return)
                   THEN [run EXCEPT !.pc = "send", !.sending = Some(Final(final_avg))]
                   ELSE [run EXCEPT !.pc = "returned",
                                    !.result = Some(Ok(Final(final_avg)))]
    /\ UNCHANGED <<calc, trial_vars, engine, channel, now>>

\* the consumer takes a message from the Receiver
Recv ==
    /\ ~channel.dropped
    /\ channel.queue # <<>>
    /\ channel' = [channel EXCEPT !.queue = Tail(@),
                                  !.received = Append(@, Head(channel.queue))]
    /\ UNCHANGED <<calc, trial_vars, engine, run, now>>

\* the consumer drops the Receiver
DropReceiver ==
    /\ ~channel.dropped
    /\ channel' = [channel EXCEPT !.dropped = TRUE]
    /\ UNCHANGED <<calc, trial_vars, engine, run, now>>

\* the networks of the runs: no reaction; two reactions that make trials of
\* one network take 1 or 2 steps; a source and its consumer; two terms of one
\* species
RunNetworks ==
    { {},
      { Reaction(<<Term("A", 1)>>, <<Term("B", 1)>>, 2),
        Reaction(<<Term("A", 2), Term("B", 1)>>, <<Term("B", 2)>>, 1) },
      { Reaction(<<>>, <<Term("A", 1)>>, 1),
        Reaction(<<Term("A", 1)>>, <<Term("B", 1)>>, 2) },
      { Reaction(<<Term("A", 1), Term("A", 1)>>, <<Term("B", 1)>>, 1) } }

\* Builder::new(prime_network).trials(n).runtime(d).tolerance(k), verbose() and
\* no_response() as chosen, then build()
InitRun ==
    \E num_trials \in 0..MaxTrials,
       max_runtime \in {None, Some(1)},
       runtime_return \in {"Full", "Minimal", "None"} :
        /\ InitOf(0..(num_trials - 1), RunNetworks,
                  { [A |-> count, B |-> 1] : count \in 0..2 },
                  {0},
                  { seeds \in [0..(num_trials - 1) -> Seeds] :
                        num_trials > 0 => seeds[0] = 1 })
        /\ Built(num_trials, max_runtime, runtime_return)
        /\ calc = NoCalc

\* the solutions added and averaged: every key set, the empty one too
SumSolutions == UNION { [keys -> 0..MaxCount] : keys \in SUBSET Names }

\* the operands of a call: up to three solutions
InitSum ==
    /\ InitOf({0}, {{}}, {[A |-> 0]}, {0}, [{0} -> {1}])
    /\ Built(1, None, "None")
    /\ \E no_states \in 0..3 : \E sim_states \in [1..no_states -> SumSolutions] :
            calc = [sim_states |-> sim_states, sums |-> None, list |-> None]

\* a + b and the sums of sums of three operands a, b, c
AddSolutions ==
    /\ Len(calc.sim_states) = 3
    /\ ~calc.sums.some
    /\ calc' = [calc EXCEPT !.sums =
            Some([a_b  |-> add(calc.sim_states[1], calc.sim_states[2]),
                  b_a  |-> add(calc.sim_states[2], calc.sim_states[1]),
                  ab_c |-> add(add(calc.sim_states[1], calc.sim_states[2]),
                               calc.sim_states[3]),
                  a_bc |-> add(calc.sim_states[1],
                               add(calc.sim_states[2], calc.sim_states[3])),
                  e_a  |-> add(identity, calc.sim_states[1]),
                  a_e  |-> add(calc.sim_states[1], identity)])]
    /\ UNCHANGED <<trial_vars, engine_vars>>

\* Self::average_trials(sim_states)
AverageTrials ==
    /\ ~calc.list.some
    /\ \E list \in average_trials(calc.sim_states) :
            calc' = [calc EXCEPT !.list = Some(list)]
    /\ UNCHANGED <<trial_vars, engine_vars>>

NextSum == AddSolutions \/ AverageTrials

SpecSum == InitSum /\ [][NextSum]_vars

\* one call of validate and one of apply on a solution and a reaction
InitSolution ==
    /\ InitOf({0}, {{}}, {[A |-> 0]}, {0}, [{0} -> {1}])
    /\ Built(1, None, "None")
    /\ \E solution \in SumSolutions, reaction \in ReactionPool :
            calc = [solution |-> solution, reaction |-> reaction,
                    valid |-> None, applied |-> None]

\* self.validate(&reaction)
Validate ==
    /\ ~calc.valid.some
    /\ ~(calc.applied.some /\ calc.applied.value.panic)
    /\ calc' = [calc EXCEPT !.valid = Some(validate(calc.solution, calc.reaction))]
    /\ UNCHANGED <<trial_vars, engine_vars>>

\* self.apply(reaction) as react() calls it, on a reaction of possible_reactions;
\* `applied` holds the solution before the call and whether the call panicked
Apply ==
    /\ ~calc.applied.some
    /\ validate(calc.solution, calc.reaction)
    /\ calc' = [calc EXCEPT
                  !.solution = apply(calc.solution, calc.reaction).solution,
                  !.applied = Some([solution |-> calc.solution,
                                    panic |-> overflow_checks
                                              /\ apply(calc.solution, calc.reaction).overflowed])]
    /\ UNCHANGED <<trial_vars, engine_vars>>

NextSolution == Validate \/ Apply

SpecSolution == InitSolution /\ [][NextSolution]_vars

\* a run in Full mode of one trial of { (nothing) -> A }, whose tolerance lets it
\* go on for MaxRounds rounds: more rounds than the channel has room
InitChannel ==
    /\ InitOf({0}, {{Reaction(<<>>, <<Term("A", 1)>>, 1)}}, {[A |-> 0]},
              {MaxRounds - 2}, [{0} -> {1}])
    /\ overflow_checks
    /\ Built(1, None, "Full")
    /\ calc = NoCalc

\* one `trial.1.step()` of a round of that run
RoundStep(id) ==
    /\ run.pc = "step"
    /\ id \notin DOMAIN run.step_results
    /\ panicked[id] = "none"
    /\ trials[id].step_counter < MaxRounds
    /\ StepFrom(id, trials[id].reaction_network.seed,
                id \in Readers(trials[id].reaction_network.seed, trials, panicked))
    /\ run' = IF panicked'[id] # "none" THEN [run EXCEPT !.pc = "panicked"]
              ELSE [run EXCEPT !.step_results = @ @@ (id :> step_state(trials'[id]))]
    /\ UNCHANGED <<prime_network, overflow_checks, calc, engine, channel, now>>

NextChannel ==
    \/ RunStart
    \/ While
    \/ \E id \in DOMAIN trials : RoundStep(id)
    \/ Match
    \/ Send
    \/ Deadline
    \/ FinalAverage
    \/ Recv
    \/ DropReceiver

SpecChannel == InitChannel /\ [][NextChannel]_vars

\* the runs of the scenarios, without a response channel: no reactions on
\* {x: 5}; { A -> B rate 1 } on {A: 3, B: 0}; { (nothing) -> X rate 1,
\* X -> (nothing) rate 1 } with max_semi_stable_steps = 10 (x and X are "A")
InitScenario ==
    /\ \E num_trials \in 1..2 :
          /\ \/ InitOf(0..(num_trials - 1), {{}}, {[A |-> 5]}, {0, 10},
                        [0..(num_trials - 1) -> Seeds])
             \/ InitOf(0..(num_trials - 1),
                        {{Reaction(<<Term("A", 1)>>, <<Term("B", 1)>>, 1)}},
                        {[A |-> 3, B |-> 0]}, {0, 10},
                        [0..(num_trials - 1) -> Seeds])
             \/ /\ num_trials = 1
                /\ InitOf({0},
                          {{Reaction(<<>>, <<Term("A", 1)>>, 1),
                            Reaction(<<Term("A", 1)>>, <<>>, 1)}},
                          {[A |-> count] : count \in 0..1}, {10}, [{0} -> Seeds])
          /\ Built(num_trials, None, "None")
    /\ calc = NoCalc

NextScenario ==
    \/ RunStart
    \/ While
    \/ \E id \in DOMAIN trials : RoundStep(id)
    \/ Match
    \/ Deadline
    \/ FinalAverage

SpecScenario == InitScenario /\ [][NextScenario]_vars

\* a step of the round is still to be made: what enables RoundStep
StepDue ==
    /\ run.pc = "step"
    /\ \E id \in DOMAIN trials :
          /\ id \notin DOMAIN run.step_results
          /\ panicked[id] = "none"
          /\ trials[id].step_counter < MaxRounds

\* run() goes on as long as it can: the loop is sequential, and the parallel
\* iterator makes every step of the round (weak fairness of RoundStep, its
\* enabling condition written out)
FairScenario ==
    /\ SpecScenario
    /\ WF_vars(RunStart) /\ WF_vars(While) /\ WF_vars(Match)
    /\ WF_vars(Deadline) /\ WF_vars(FinalAverage)
    /\ []<>(~StepDue)

\* the defaults of Builder::new
default_num_trials == 100
default_max_semi_stable_steps == 99

\* Builder::new: the settings of the new Builder
Builder_new ==
    [num_trials            |-> default_num_trials,
     max_runtime           |-> None,
     max_semi_stable_steps |-> default_max_semi_stable_steps,
     runtime_return        |-> "Minimal"]

\* a verbose() that always sets Full
verbose_sets_full(self) == [self EXCEPT !.runtime_return = "Full"]

\* Builder::verbose
verbose(self) ==
    [self EXCEPT !.runtime_return =
        IF @ = "Minimal" THEN "Full"
        ELSE IF @ = "Full" THEN "Minimal"
        ELSE "None"]

\* Builder::no_response
no_response(self) ==
    IF self.runtime_return \in {"Full", "Minimal"}
    THEN [self EXCEPT !.runtime_return = "None"]
    ELSE self

\* a Builder and the calls made on it; `op` is the last call
InitBuilder ==
    /\ InitOf({0}, {{}}, {[A |-> 0]}, {0}, [{0} -> {1}])
    /\ Built(1, None, "None")
    /\ calc = [builder |-> Builder_new, op |-> "new"]

\* Builder::trials
SetTrials ==
    /\ \E count \in 0..MaxTrials :
          calc' = [builder |-> [calc.builder EXCEPT !.num_trials = count],
                   op |-> "trials"]
    /\ UNCHANGED <<trial_vars, engine_vars>>

\* Builder::runtime
SetRuntime ==
    /\ \E time \in 0..MaxTime :
          calc' = [builder |-> [calc.builder EXCEPT !.max_runtime = Some(time)],
                   op |-> "runtime"]
    /\ UNCHANGED <<trial_vars, engine_vars>>

\* Builder::tolerance
SetTolerance ==
    /\ \E steps \in 0..MaxTolerance :
          calc' = [builder |-> [calc.builder EXCEPT !.max_semi_stable_steps = steps],
                   op |-> "tolerance"]
    /\ UNCHANGED <<trial_vars, engine_vars>>

Verbose ==
    /\ calc' = [builder |-> verbose(calc.builder), op |-> "verbose"]
    /\ UNCHANGED <<trial_vars, engine_vars>>

NoResponse ==
    /\ calc' = [builder |-> no_response(calc.builder), op |-> "no_response"]
    /\ UNCHANGED <<trial_vars, engine_vars>>

NextBuilder == SetTrials \/ SetRuntime \/ SetTolerance \/ Verbose \/ NoResponse

SpecBuilder == InitBuilder /\ [][NextBuilder]_vars

\* a build whose loop runs over 1..num_trials
build_from_one(self, prime, seeding) ==
    [index \in 1..self.num_trials |->
        from(with_seed(prime, seeding[index - 1]), self.max_semi_stable_steps, index)]

\* the processing_trials of Builder::build: for index in 0..num_trials, one
\* Trial::from(prime_network.clone().with_seed(rand::random()), ..) under the
\* key of the index; seeding[index] is what rand::random() returns
build(self, prime, seeding) ==
    [index \in 0..(self.num_trials - 1) |->
        from(with_seed(prime, seeding[index]), self.max_semi_stable_steps, index)]

\* Builder::new(prime_network).trials(n).tolerance(k), then nothing, verbose()
\* or no_response(): a Builder that is not built yet
InitBuild ==
    /\ overflow_checks \in BOOLEAN
    /\ \E reactions \in { n \in RunNetworks : Cardinality(n) = 2 } :
          prime_network = new(reactions, [A |-> 2, B |-> 1],
                              CHOOSE seed \in Seeds : TRUE)
    /\ trials = [id \in {} |-> 0]
    /\ panicked = [id \in {} |-> "none"]
    /\ observed = [id \in {} |-> NoStep]
    /\ tape = [seed \in Seeds |-> <<>>]
    /\ engine = None
    /\ run = [pc |-> "builder", timer |-> None, step_results |-> [id \in {} |-> 0],
              sending |-> None, result |-> None]
    /\ channel = [queue |-> <<>>, received |-> <<>>, dropped |-> FALSE]
    /\ now = 0
    /\ \E count \in {0, 1, 2}, steps \in 0..MaxTolerance :
          \/ calc = [builder |-> [Builder_new EXCEPT
                                    !.num_trials = count,
                                    !.max_semi_stable_steps = steps],
                     op |-> "tolerance"]
          \/ calc = [builder |-> verbose([Builder_new EXCEPT
                                            !.num_trials = count,
                                            !.max_semi_stable_steps = steps]),
                     op |-> "verbose"]
          \/ calc = [builder |-> no_response([Builder_new EXCEPT
                                                !.num_trials = count,
                                                !.max_semi_stable_steps = steps]),
                     op |-> "no_response"]

\* Builder::build
Build ==
    /\ run.pc = "builder"
    /\ \E seeding \in [0..(calc.builder.num_trials - 1) -> Seeds] :
          trials' = build(calc.builder, prime_network, seeding)
    /\ panicked' = [id \in DOMAIN trials' |-> "none"]
    /\ observed' = [id \in DOMAIN trials' |-> NoStep]
    /\ engine' = [num_trials       |-> calc.builder.num_trials,
                  max_runtime      |-> calc.builder.max_runtime,
                  runtime_return   |-> calc.builder.runtime_return,
                  completed_trials |-> [id \in {} |-> 0],
                  step_counter     |-> 0]
    /\ run' = [run EXCEPT !.pc = "built"]
    /\ UNCHANGED <<prime_network, overflow_checks, tape, channel, now, calc>>

NextBuild ==
    \/ Build
    \/ RunStart
    \/ While
    \/ \E id \in DOMAIN trials : RoundStep(id)
    \/ Match
    \/ Send
    \/ Deadline
    \/ FinalAverage
    \/ Recv

SpecBuild == InitBuild /\ [][NextBuild]_vars

\* the thread of build() and run() goes on while it can, rayon runs every
\* step of a round, and the consumer keeps reading
FairBuild ==
    /\ SpecBuild
    /\ WF_vars(Build) /\ WF_vars(RunStart) /\ WF_vars(While) /\ WF_vars(Match)
    /\ WF_vars(Send) /\ WF_vars(Deadline) /\ WF_vars(FinalAverage) /\ WF_vars(Recv)
    /\ []<>(~StepDue)

----
\* Trial::simulate.

\* TrialResult
StableSolution(sln, id, step_counter) ==
    [tag |-> "StableSolution", sln |-> sln, id |-> id, step_counter |-> step_counter]
IntermediateStep(sln, id, step_counter) ==
    [tag |-> "IntermediateStep", sln |-> sln, id |-> id, step_counter |-> step_counter]

\* Trial::from with the trial_return of the trial: "Minimal" or "Full", the
\* SyncSender of either being `channel`
from_with_return(reaction_network, max_semi_stable_steps, id, trial_return) ==
    [reaction_network      |-> reaction_network,
     stability             |-> Initial,
     step_counter          |-> 0,
     max_semi_stable_steps |-> max_semi_stable_steps,
     id                    |-> id,
     trial_return          |-> trial_return]

\* a Full loop that tests for Stable before it sends the IntermediateStep
after_step_stable_first(trial) ==
    IF trial.stability = Stable THEN "stable"
    ELSE IF trial.trial_return = "Full" THEN "intermediate"
    ELSE "loop"

\* where simulate() goes on after `self.step()` has returned: the Full loop
\* sends the IntermediateStep, the Minimal loop tests for Stable
after_step(trial) ==
    IF trial.trial_return = "Full" THEN "intermediate"
    ELSE IF trial.stability = Stable THEN "stable"
    ELSE "loop"

\* one trial and the Receiver of its SyncSender; simulate() is at its `loop`
InitSimulate ==
    /\ overflow_checks \in BOOLEAN
    /\ \E reactions \in { n \in Networks : Cardinality(n) <= 2 },
          solution \in [Names -> 0..1] :
            prime_network = new(reactions, solution, CHOOSE seed \in Seeds : TRUE)
    /\ \E max_semi_stable_steps \in 0..MaxTolerance, trial_return \in {"Minimal", "Full"} :
            trials = [id \in {0} |->
                        from_with_return(with_seed(prime_network, 1),
                                         max_semi_stable_steps, id, trial_return)]
    /\ panicked = [id \in {0} |-> "none"]
    /\ tape = [seed \in Seeds |-> <<>>]
    /\ observed = [id \in {0} |-> NoStep]
    /\ engine = None
    /\ run = [pc |-> "loop"]
    /\ channel = [queue |-> <<>>, received |-> <<>>, dropped |-> FALSE]
    /\ now = 0
    /\ calc = NoCalc

\* `self.step()` of either loop
SimulateStep ==
    /\ run.pc = "loop"
    /\ Step(0)
    /\ run' = IF panicked'[0] # "none" THEN [pc |-> "panicked"]
              ELSE [pc |-> after_step(trials'[0])]
    /\ UNCHANGED <<calc, engine, channel, now>>

\* return_sender.send(message).expect(..): a panic if the Receiver was dropped
SendResult(message, pc) ==
    /\ IF channel.dropped
       THEN /\ run' = [pc |-> "panicked"]
            /\ UNCHANGED channel
       ELSE /\ channel' = [channel EXCEPT !.queue = Append(@, message)]
            /\ run' = [pc |-> pc]
    /\ UNCHANGED <<calc, trial_vars, engine, now>>

\* the send of the Full loop after every step, and its test for Stable
SendIntermediateStep ==
    /\ run.pc = "intermediate"
    /\ SendResult(IntermediateStep(trials[0].reaction_network.solution,
                                   trials[0].id, trials[0].step_counter),
                  IF trials[0].stability = Stable THEN "stable" ELSE "loop")

\* the send of a Stable trial, and the return
SendStableSolution ==
    /\ run.pc = "stable"
    /\ SendResult(StableSolution(trials[0].reaction_network.solution,
                                 trials[0].id, trials[0].step_counter),
                  "returned")

NextSimulate ==
    \/ SimulateStep
    \/ SendIntermediateStep
    \/ SendStableSolution
    \/ Recv
    \/ DropReceiver

SpecSimulate == InitSimulate /\ [][NextSimulate]_vars

NextRun ==
    \/ RunStart
    \/ While
    \/ \E id \in DOMAIN trials : RunStep(id)
    \/ Match
    \/ Send
    \/ Deadline
    \/ FinalAverage
    \/ Recv
    \/ DropReceiver

SpecRun == InitRun /\ [][NextRun]_vars

----
\* Claims.

Returned(id) == trials'[id].step_counter = trials[id].step_counter + 1

\* possible_reactions after the first react() of the step that trial id just made
MidPossible(id) ==
    IF Len(observed'[id].reacts) = 2
    THEN observed'[id].reacts[2].possible_reactions
    ELSE trials'[id].reaction_network.possible_reactions

ReactantNames(reactions) ==
    UNION { { r.reactants[k].species_name : k \in 1..Len(r.reactants) } : r \in reactions }

\* C1: in a network whose reactant species are all keys of the initial
\* solution, no subtraction of apply goes below zero: no react() panics on an
\* overflow and no count of a trial holds a wrapped value.
C1_NoUnderflow ==
    ReactantNames(prime_network.reactions) \subseteq DOMAIN prime_network.solution
    => \A id \in DOMAIN trials :
        /\ panicked[id] # "overflow"
        /\ \A n \in DOMAIN trials[id].reaction_network.solution :
                trials[id].reaction_network.solution[n] >= 0

\* C2: every reaction a react() applied was in possible_reactions when it was
\* drawn, and validate held for it on the solution it was applied to.
C2_DrawnIsPossibleAndValid ==
    \A id \in DOMAIN trials : \A k \in 1..Len(observed[id].reacts) :
        /\ observed[id].reacts[k].reaction \in observed[id].reacts[k].possible_reactions
        /\ validate(observed[id].reacts[k].solution, observed[id].reacts[k].reaction)

\* a step that applied two reactions, the second to a solution that the first changed
C2_Witness ==
    \E id \in DOMAIN trials :
        /\ Len(observed[id].reacts) = 2
        /\ observed[id].reacts[1].solution # observed[id].reacts[2].solution
        /\ observed[id].reacts[2].possible_reactions # prime_network.reactions

\* C3: no react() of a step is made on an empty possible_reactions: gen_range
\* never gets the empty range and get_next_reaction never fails.
C3_ReactHasPossible ==
    \A id \in DOMAIN trials : panicked[id] \notin {"empty_range", "unwrap_err"}

\* the sum of the rates of the first i reactions of seq
RECURSIVE Cumulative(_, _)
Cumulative(seq, i) == IF i = 0 THEN 0 ELSE Cumulative(seq, i - 1) + seq[i].reaction_rate

\* C4: on a non-empty possible_reactions of rate sum W, every x of 0..W-1
\* selects the first reaction in iteration order whose cumulative rate exceeds
\* x, never the error, and a reaction r is selected by exactly rate(r) values x.
C4_WeightedSelection ==
    \A id \in DOMAIN trials :
        LET P == trials[id].reaction_network.possible_reactions
            seq == iter(P)
            W == Cumulative(seq, Len(seq))
        IN  /\ sum_possible_reaction_rates(P) = W
            /\ \A x \in 0..(W - 1) :
                LET got == get_next_reaction(P, x)
                IN  /\ got.ok
                    /\ \E i \in 1..Len(seq) :
                        /\ got.value = seq[i]
                        /\ Cumulative(seq, i) > x
                        /\ Cumulative(seq, i - 1) <= x
            /\ \A r \in P :
                Cardinality({ x \in 0..(W - 1) : get_next_reaction(P, x) = Ok(r) })
                    = r.reaction_rate

\* a trial with three possible reactions, one of rate 2, that has drawn on them
C4_Witness ==
    \E id \in DOMAIN trials :
        /\ Cardinality(trials[id].reaction_network.possible_reactions) >= 3
        /\ \E r \in trials[id].reaction_network.possible_reactions : r.reaction_rate = 2
        /\ trials[id].step_counter >= 1

\* C5: two trials of one prime network and one seed are equal after equally
\* many steps (stability, solution, possible reactions, reactions applied by the
\* last step); both Stable, they hold equal solutions and became Stable at the
\* same step count.
C5_SeedDeterminism ==
    \A i, j \in DOMAIN trials :
        trials[i].reaction_network.seed = trials[j].reaction_network.seed
        => /\ (trials[i].step_counter = trials[j].step_counter
               /\ panicked[i] = "none" /\ panicked[j] = "none")
              => /\ [trials[i] EXCEPT !.id = 0] = [trials[j] EXCEPT !.id = 0]
                 /\ observed[i] = observed[j]
           /\ (trials[i].stability = Stable /\ trials[j].stability = Stable)
              => /\ trials[i].reaction_network.solution = trials[j].reaction_network.solution
                 /\ observed[i].stable_at = observed[j].stable_at

\* two trials of one seed, both Stable after two or more steps in which the
\* draws had more than one outcome
C5_Witness ==
    /\ trials[0].reaction_network.seed = trials[1].reaction_network.seed
    /\ trials[0].stability = Stable /\ trials[1].stability = Stable
    /\ observed[0].stable_at >= 2
    /\ trials[0].reaction_network.solution # prime_network.solution
    /\ Cardinality(prime_network.possible_reactions) >= 2

\* C6: a reaction is null adjacent iff it has no reactants or has a reactant of
\* a species that a reaction without reactants produces.
C6_NullAdjacentClosure ==
    LET reactions == prime_network.reactions
        sources == { r \in reactions : Len(r.reactants) = 0 }
        produced == UNION { { r.products[k].species_name : k \in 1..Len(r.products) } :
                            r \in sources }
    IN  prime_network.null_adjacent_reactions =
            { r \in reactions :
                \/ r \in sources
                \/ \E k \in 1..Len(r.reactants) : r.reactants[k].species_name \in produced }

\* a network with a reaction (B -> ) that consumes only what a null adjacent
\* reaction with reactants (A -> B) produces, and is not null adjacent
C6_Witness ==
    \E r \in prime_network.null_adjacent_reactions :
        /\ Len(r.reactants) > 0
        /\ \E s \in prime_network.reactions \ prime_network.null_adjacent_reactions :
            \E p \in 1..Len(r.products) : \E q \in 1..Len(s.reactants) :
                r.products[p].species_name = s.reactants[q].species_name

\* C7: a step() on a Stable trial leaves it Stable, applies no reaction and
\* leaves the network of the trial (solution, possible_reactions, prng) as it was.
C7_StableAbsorbing ==
    [][\A id \in DOMAIN trials :
        trials[id].stability = Stable
        => /\ trials'[id].stability = Stable
           /\ trials'[id].reaction_network = trials[id].reaction_network
           /\ panicked'[id] = panicked[id]
           /\ Returned(id) => observed'[id].reacts = <<>>]_vars

\* a trial stepped after it became Stable
C7_Witness ==
    \E id \in DOMAIN trials :
        /\ trials[id].stability = Stable
        /\ observed[id].stable_at > 0
        /\ trials[id].step_counter > observed[id].stable_at
        /\ prime_network.reactions # {}

\* C8: a trial enters SemiStable(0) at step count e.  A step from SemiStable
\* that finds, after its first react(), a non-empty possible_reactions within
\* null_adjacent_reactions applies a second reaction and leaves the trial
\* SemiStable before step count e + max_semi_stable_steps + 1 and Stable at it.
C8_ToleranceBound ==
    [][\A id \in DOMAIN trials :
        LET e == observed[id].semi_entry
            last == e + trials[id].max_semi_stable_steps + 1
        IN  /\ (Returned(id) /\ trials'[id].stability = SemiStable(0))
               => observed'[id].semi_entry = trials'[id].step_counter
            /\ (/\ Returned(id)
                /\ trials[id].stability.tag = "SemiStable"
                /\ MidPossible(id) # {}
                /\ MidPossible(id) \subseteq trials[id].reaction_network.null_adjacent_reactions)
               => /\ Len(observed'[id].reacts) = 2
                  /\ trials'[id].step_counter <= last
                  /\ trials'[id].step_counter < last
                     => trials'[id].stability = SemiStable(trials'[id].step_counter - e)
                  /\ trials'[id].step_counter = last
                     => trials'[id].stability = Stable]_vars

\* a trial of tolerance 1 or more that became Stable by using up the tolerance
C8_Witness ==
    \E id \in DOMAIN trials :
        /\ trials[id].stability = Stable
        /\ trials[id].max_semi_stable_steps >= 1
        /\ observed[id].semi_entry > 0
        /\ observed[id].stable_at = observed[id].semi_entry + trials[id].max_semi_stable_steps + 1
        /\ Len(observed[id].reacts) = 2

\* C9: a step from Initial or Unstable that returns has applied exactly one
\* reaction and left the trial Stable if possible_reactions is empty,
\* SemiStable(0) if it is non-empty and within null_adjacent_reactions, and
\* Unstable otherwise; no step leaves a trial Initial.
C9_UnstableTransitions ==
    [][\A id \in DOMAIN trials :
        LET P == trials'[id].reaction_network.possible_reactions
            N == trials'[id].reaction_network.null_adjacent_reactions
        IN  /\ (Returned(id) /\ trials[id].stability.tag \in {"Initial", "Unstable"})
               => /\ Len(observed'[id].reacts) = 1
                  /\ trials'[id].reaction_network.prng = trials[id].reaction_network.prng + 1
                  /\ P = {} => trials'[id].stability = Stable
                  /\ (P # {} /\ P \subseteq N) => trials'[id].stability = SemiStable(0)
                  /\ ~(P \subseteq N) => trials'[id].stability = Unstable
            /\ Returned(id) => trials'[id].stability # Initial
            /\ trials[id].stability # Initial => trials'[id].stability # Initial]_vars

\* a trial that a step took from Unstable to SemiStable(0)
C9_Witness ==
    \E id \in DOMAIN trials :
        /\ trials[id].stability = SemiStable(0)
        /\ trials[id].step_counter >= 2

\* C10: a step from SemiStable(k) that returns, with P the possible_reactions
\* after its first react(): P empty, Stable and one reaction applied; P
\* non-empty within null_adjacent_reactions, two reactions applied and
\* SemiStable(k+1) if k < max_semi_stable_steps, Stable if not; otherwise
\* Unstable and one reaction applied.  SemiStable is entered at count 0.
C10_SemiStableTransitions ==
    [][\A id \in DOMAIN trials :
        LET k == trials[id].stability.count
            max == trials[id].max_semi_stable_steps
            N == trials[id].reaction_network.null_adjacent_reactions
            P == MidPossible(id)
            n == Len(observed'[id].reacts)
        IN  /\ (Returned(id) /\ trials[id].stability.tag = "SemiStable")
               => /\ P = {} => (trials'[id].stability = Stable /\ n = 1)
                  /\ (P # {} /\ P \subseteq N /\ k < max)
                     => (trials'[id].stability = SemiStable(k + 1) /\ n = 2)
                  /\ (P # {} /\ P \subseteq N /\ k >= max)
                     => (trials'[id].stability = Stable /\ n = 2)
                  /\ ~(P \subseteq N) => (trials'[id].stability = Unstable /\ n = 1)
            /\ (trials[id].stability.tag # "SemiStable"
                /\ trials'[id].stability.tag = "SemiStable")
               => trials'[id].stability.count = 0]_vars

\* a trial that left SemiStable for Unstable and entered SemiStable(0) again
C10_Witness ==
    \E id \in DOMAIN trials :
        /\ trials[id].stability = SemiStable(0)
        /\ observed[id].semi_entry = trials[id].step_counter
        /\ trials[id].step_counter >= 3

\* the messages sent on the channel so far, in order
sent == channel.received \o channel.queue

\* how many of the messages are of the variant `tag`
count_of(messages, tag) ==
    Cardinality({ k \in 1..Len(messages) : messages[k].tag = tag })

\* run() has returned Ok
succeeded == run.pc = "returned" /\ run.result.some /\ run.result.value.ok

\* C11: with a response channel, a Final message is the last message and is
\* sent only by a run() that returns Ok, which has sent exactly one; in Full
\* mode one Intermediary has been sent per finished round, the one of a round
\* before a trial is stepped in the next round.
C11_StreamingProtocol ==
    engine.runtime_return \in {"Full", "Minimal"}
    => /\ \A k \in 1..Len(sent) :
            sent[k].tag = "Final" => (k = Len(sent) /\ succeeded)
       /\ succeeded => (sent # <<>> /\ sent[Len(sent)].tag = "Final")
       /\ engine.runtime_return = "Full"
          => /\ count_of(sent, "Intermediary") =
                    IF run.sending.some /\ run.sending.value.tag = "Intermediary"
                    THEN engine.step_counter - 1
                    ELSE engine.step_counter
             /\ run.pc = "step" => count_of(sent, "Intermediary") = engine.step_counter

\* a run() of two trials in Full mode that returned Ok after two or more rounds
C11_Witness ==
    /\ succeeded
    /\ engine.runtime_return = "Full"
    /\ engine.num_trials = 2
    /\ engine.step_counter >= 2
    /\ count_of(sent, "Intermediary") = engine.step_counter
    /\ Len(sent) = engine.step_counter + 1

\* C12: in Minimal mode no Intermediary is sent and a run() that returns Ok
\* has sent one Final; in None mode nothing is sent; in every mode a run()
\* that returns Ok returns a Final, the average of the completed trials, and it
\* is the Final it sent if it sent one.
C12_EmissionByVerbosity ==
    /\ engine.runtime_return = "Minimal"
       => /\ count_of(sent, "Intermediary") = 0
          /\ succeeded => count_of(sent, "Final") = 1
    /\ engine.runtime_return = "None" => (sent = <<>> /\ ~run.sending.some)
    /\ succeeded
       => /\ run.result.value.value.tag = "Final"
          /\ \E order \in orders(DOMAIN engine.completed_trials) :
                run.result.value.value.avg \in average_trials(
                    solutions_of(order, [id \in DOMAIN engine.completed_trials |->
                                            get_solution(engine.completed_trials[id])]))
          /\ engine.runtime_return # "None"
             => sent[Len(sent)] = run.result.value.value

\* a run() of two trials in Minimal mode that returned Ok after two or more
\* rounds, its Final being the one message sent
C12_Witness ==
    /\ succeeded
    /\ engine.runtime_return = "Minimal"
    /\ engine.num_trials = 2
    /\ engine.step_counter >= 2
    /\ sent = <<run.result.value.value>>

\* C13: the deadline check makes run() return ExceededRuntime exactly when a
\* max_runtime was set and the clock it reads is past start + max_runtime;
\* otherwise the loop goes on.
C13_DeadlineCheck ==
    [][(run.pc = "deadline" /\ run' # run)
       => /\ (run'.result = Some(ExceededRuntime))
              <=> (engine.max_runtime.some /\ now' > run.timer.value)
          /\ ~(engine.max_runtime.some /\ now' > run.timer.value)
              => run'.pc = "while"]_vars

\* C14: once run() has ended with ExceededRuntime, in any verbosity mode, no
\* Final message is among the messages sent or being sent and the caller holds
\* the error and no average.
C14_NoPartialFinal ==
    (run.result = Some(ExceededRuntime))
    => /\ run.pc = "returned"
       /\ count_of(sent, "Final") = 0
       /\ ~run.sending.some
       /\ ~run.result.value.ok
       /\ "value" \notin DOMAIN run.result.value

C14_Witness ==
    /\ run.result = Some(ExceededRuntime)
    /\ engine.runtime_return = "Full"
    /\ count_of(sent, "Intermediary") = 1
    /\ channel.received # <<>>

\* the solutions the final average is taken over, in the order `order`
completed_solutions(order) ==
    solutions_of(order, [id \in DOMAIN engine.completed_trials |->
                            get_solution(engine.completed_trials[id])])

\* C15: once the loop of run() is left, and so in every successful return,
\* completed_trials holds all num_trials trials and processing_trials is empty;
\* the final average is taken over exactly num_trials solutions, each the
\* solution of its trial as the step that made it Stable left it.
C15_FinalOverAllTrials ==
    (run.pc = "final" \/ (run.pc = "send" /\ run.sending.value.tag = "Final") \/ succeeded)
    => /\ DOMAIN engine.completed_trials = 0..(engine.num_trials - 1)
       /\ DOMAIN trials = {}
       /\ \A id \in DOMAIN engine.completed_trials :
             /\ engine.completed_trials[id].stability = Stable
             /\ engine.completed_trials[id].step_counter = observed[id].stable_at
       /\ \A order \in orders(DOMAIN engine.completed_trials) :
             Len(completed_solutions(order)) = engine.num_trials
       /\ succeeded
          => \E order \in orders(DOMAIN engine.completed_trials) :
                run.result.value.value.avg \in average_trials(completed_solutions(order))

C15_Witness ==
    /\ succeeded
    /\ engine.num_trials = 2
    /\ observed[0].stable_at = 1
    /\ observed[1].stable_at = 2
    /\ engine.step_counter = 2
    /\ get_solution(engine.completed_trials[0]) # get_solution(engine.completed_trials[1])

\* every id of 0..num_trials is in exactly one of the two maps
partitioned(processing_trials, completed_trials, num_trials) ==
    /\ DOMAIN processing_trials \cap DOMAIN completed_trials = {}
    /\ DOMAIN processing_trials \cup DOMAIN completed_trials = 0..(num_trials - 1)
    /\ Cardinality(DOMAIN processing_trials) + Cardinality(DOMAIN completed_trials)
         = num_trials

\* C16: every trial id of 0..num_trials is in exactly one of processing_trials
\* and completed_trials; a trial enters completed_trials in the round, and only
\* in the round, in which its step reports Complete, as that step left it; once
\* there it stays and is never stepped or changed again.
C16_BookKeeping ==
    [][/\ partitioned(trials, engine.completed_trials, engine.num_trials)
       /\ partitioned(trials', engine'.completed_trials, engine'.num_trials)
       /\ \A id \in DOMAIN engine'.completed_trials \ DOMAIN engine.completed_trials :
             /\ run.pc = "step" /\ run'.pc \in {"send", "deadline"}
             /\ run.step_results[id].tag = "Complete"
             /\ engine'.completed_trials[id] = trials[id]
       /\ (run.pc = "step" /\ run'.pc \in {"send", "deadline"})
          => \A id \in DOMAIN run.step_results :
                (id \in DOMAIN engine'.completed_trials)
                <=> (run.step_results[id].tag = "Complete")
       /\ \A id \in DOMAIN engine.completed_trials :
             /\ id \in DOMAIN engine'.completed_trials
             /\ engine'.completed_trials[id] = engine.completed_trials[id]
             /\ observed'[id] = observed[id]]_vars

C16_Witness ==
    /\ run.pc = "step"
    /\ engine.num_trials = 2
    /\ DOMAIN engine.completed_trials = {1}
    /\ DOMAIN trials = {0}
    /\ 0 \in DOMAIN run.step_results
    /\ trials[0].step_counter = 2
    /\ engine.completed_trials[1].step_counter = 1

\* a.get(k, 0)
count_or_zero(solution, name) == IF name \in DOMAIN solution THEN solution[name] ELSE 0

\* the pointwise sum over the union of the keys
pointwise_sum(a, b) ==
    [name \in DOMAIN a \cup DOMAIN b |-> count_or_zero(a, name) + count_or_zero(b, name)]

\* C17: the keys of a + b are keys(a) \cup keys(b), and (a + b)[k] is
\* a.get(k, 0) + b.get(k, 0) for each of them, keys of the right operand alone
\* included.
C17_AddOverUnionOfKeys ==
    calc.sums.some
    => /\ DOMAIN calc.sums.value.a_b
            = DOMAIN calc.sim_states[1] \cup DOMAIN calc.sim_states[2]
       /\ calc.sums.value.a_b = pointwise_sum(calc.sim_states[1], calc.sim_states[2])

\* C18: a + b = b + a, (a + b) + c = a + (b + c), empty + a = a and
\* a + empty = a, whatever the key sets of a, b and c.
C18_AddLaws ==
    calc.sums.some
    => /\ calc.sums.value.a_b = calc.sums.value.b_a
       /\ calc.sums.value.ab_c = calc.sums.value.a_bc
       /\ calc.sums.value.e_a = calc.sim_states[1]
       /\ calc.sums.value.a_e = calc.sim_states[1]

\* C19: average_trials of m >= 1 copies of a solution S returns the pairs
\* (key, S[key]), one for each key of S.
C19_AverageRoundTrip ==
    (/\ calc.list.some
     /\ Len(calc.sim_states) >= 1
     /\ \A i \in DOMAIN calc.sim_states : calc.sim_states[i] = calc.sim_states[1])
    => /\ Len(calc.list.value) = Cardinality(DOMAIN calc.sim_states[1])
       /\ calc.list.value
            = sort_by_name({ <<name, [num |-> calc.sim_states[1][name], den |-> 1]>> :
                                name \in DOMAIN calc.sim_states[1] })

\* the sum of the counts of `name` over sim_states[i..], missing keys being 0
RECURSIVE total(_, _, _)
total(sim_states, name, i) ==
    IF i > Len(sim_states) THEN 0
    ELSE count_or_zero(sim_states[i], name) + total(sim_states, name, i + 1)

\* C20: average_trials over S1..Sm, m >= 1, returns one pair for each species
\* that is a key of some Si, its value the sum of the Si[k] (0 where missing)
\* divided by m, the pairs by Name strictly ascending.
C20_AverageOverAllKeys ==
    (calc.list.some /\ Len(calc.sim_states) >= 1)
    => /\ { pair[1] : pair \in { calc.list.value[k] : k \in DOMAIN calc.list.value } }
            = UNION { DOMAIN calc.sim_states[i] : i \in DOMAIN calc.sim_states }
       /\ \A k \in DOMAIN calc.list.value :
             calc.list.value[k][2]
                = Avg(total(calc.sim_states, calc.list.value[k][1], 1),
                      Len(calc.sim_states))
       /\ \A j, k \in DOMAIN calc.list.value :
             j < k => NameRank(calc.list.value[j][1]) < NameRank(calc.list.value[k][1])

\* the species names of the pairs of a list of averages
names_of(list) == { list[k][1] : k \in DOMAIN list }

\* C21: a run() of at least one trial of a network whose initial solution has
\* a species, once it has returned Ok(Final(avg)), has an avg that is not empty
\* and holds one entry for each species key of the initial solution.
C21_FinalAverageNonEmpty ==
    (succeeded /\ engine.num_trials >= 1 /\ DOMAIN prime_network.solution # {})
    => /\ Len(run.result.value.value.avg) > 0
       /\ names_of(run.result.value.value.avg) = DOMAIN prime_network.solution
       /\ Len(run.result.value.value.avg) = Cardinality(DOMAIN prime_network.solution)

\* a <= b on the u64 values that a and b stand for
u64_le(a, b) ==
    IF b < 0 THEN a >= 0 \/ a <= b
    ELSE a >= 0 /\ a <= b

\* C22: validate(reaction) is true exactly when every reactant term whose
\* species name is a key of the solution has a coefficient <= the count of that
\* species; a reactant whose name is absent counts as satisfied, a reaction
\* without reactants validates, and the call leaves the solution as it was.
C22_Validate ==
    [][(~calc.valid.some /\ calc'.valid.some)
       => /\ calc'.solution = calc.solution
          /\ calc'.valid.value
                <=> \A k \in DOMAIN calc.reaction.reactants :
                       calc.reaction.reactants[k].species_name \in DOMAIN calc.solution
                       => u64_le(calc.reaction.reactants[k].coefficient,
                                 calc.solution[calc.reaction.reactants[k].species_name])
          /\ calc.reaction.reactants = <<>> => calc'.valid.value]_vars

C22_Witness ==
    /\ calc.valid.some
    /\ calc.valid.value
    /\ ~calc.applied.some
    /\ Len(calc.reaction.reactants) = 2
    /\ \E k \in DOMAIN calc.reaction.reactants :
          calc.reaction.reactants[k].species_name \notin DOMAIN calc.solution
    /\ \E k \in DOMAIN calc.reaction.reactants :
          calc.reaction.reactants[k].species_name \in DOMAIN calc.solution

\* the sum of the coefficients of the terms of `terms`, from the i-th on, that
\* name `name`
RECURSIVE coefficient_of(_, _, _)
coefficient_of(terms, name, i) ==
    IF i > Len(terms) THEN 0
    ELSE (IF terms[i].species_name = name THEN terms[i].coefficient ELSE 0)
         + coefficient_of(terms, name, i + 1)

\* the species names of the terms of `terms`
species_of(terms) == { terms[k].species_name : k \in DOMAIN terms }

\* C23: apply(reaction), for a reaction of possible_reactions, returns, takes
\* from the count of each reactant species its coefficients and adds to the
\* count of each product species its coefficients, a product species that was
\* not a key of the solution becoming one; the other counts stay as they were.
C23_Apply ==
    [][(~calc.applied.some /\ calc'.applied.some)
       => /\ ~calc'.applied.value.panic
          /\ DOMAIN calc'.solution
                = DOMAIN calc.solution \cup species_of(calc.reaction.products)
          /\ \A name \in DOMAIN calc'.solution :
                calc'.solution[name]
                    = count_or_zero(calc.solution, name)
                      - coefficient_of(calc.reaction.reactants, name, 1)
                      + coefficient_of(calc.reaction.products, name, 1)]_vars

\* every reactant of `reaction` whose species is a key of `solution` has a
\* coefficient within the count
satisfied(solution, reaction) ==
    \A k \in DOMAIN reaction.reactants :
        reaction.reactants[k].species_name \in DOMAIN solution
        => u64_le(reaction.reactants[k].coefficient,
                  solution[reaction.reactants[k].species_name])

in_sync(network) ==
    /\ network.possible_reactions \subseteq network.reactions
    /\ \A reaction \in network.reactions :
          (reaction \in network.possible_reactions)
          <=> satisfied(network.solution, reaction)

\* C24: after ReactionNetwork::new and after every react(), possible_reactions
\* is the set of the reactions of the network that validate on the current
\* solution, in the prime network and in every trial.
C24_PossibleInSync ==
    /\ in_sync(prime_network)
    /\ \A id \in DOMAIN trials : in_sync(trials[id].reaction_network)

C24_Witness ==
    \E id \in DOMAIN trials :
        /\ panicked[id] = "none"
        /\ trials[id].reaction_network.prng >= 2
        /\ trials[id].reaction_network.possible_reactions
              # prime_network.possible_reactions
        /\ trials[id].reaction_network.possible_reactions # {}
        /\ trials[id].reaction_network.possible_reactions
              # trials[id].reaction_network.reactions

\* the trials of the engine, processing and completed
all_trials == trials @@ engine.completed_trials

\* C25: a step of one trial of a round changes no other trial (solution,
\* stability, counter, generator) and not the prime network; so in whatever
\* order the steps of the rounds interleave, trials of one seed that have made
\* equally many steps are in the same state, and a trial's state is the one its
\* seed and its number of steps give.
C25_TrialIsolation ==
    [][/\ prime_network' = prime_network
       /\ (run.pc = "step" /\ run'.pc \in {"step", "panicked"})
          => /\ DOMAIN trials' = DOMAIN trials
             /\ engine' = engine
             /\ \A id \in DOMAIN trials :
                   (trials'[id] # trials[id] \/ panicked'[id] # panicked[id])
                   => \A other \in DOMAIN trials \ {id} :
                         /\ trials'[other] = trials[other]
                         /\ panicked'[other] = panicked[other]
                         /\ observed'[other] = observed[other]
       /\ \A i, j \in DOMAIN all_trials' :
             (/\ all_trials'[i].reaction_network.seed = all_trials'[j].reaction_network.seed
              /\ all_trials'[i].step_counter = all_trials'[j].step_counter
              /\ panicked'[i] = "none" /\ panicked'[j] = "none")
             => /\ all_trials'[i].reaction_network = all_trials'[j].reaction_network
                /\ all_trials'[i].stability = all_trials'[j].stability]_vars

C25_Witness ==
    /\ run.pc = "step"
    /\ engine.step_counter = 1
    /\ DOMAIN trials = {0, 1}
    /\ DOMAIN run.step_results = {1}
    /\ trials[0].step_counter = 1 /\ trials[1].step_counter = 2
    /\ trials[0].reaction_network.seed = trials[1].reaction_network.seed
    /\ trials[0].reaction_network.solution # trials[1].reaction_network.solution
    /\ Cardinality(prime_network.possible_reactions) >= 2

\* C26: in Full or Minimal mode a send of run() with the Receiver dropped is
\* fatal: run() panics and returns nothing.  In None mode run() never sends, so
\* a dropped Receiver never fails it: it fails only if a step of a trial panics.
C26_ConsumerDropped ==
    [][/\ (run.pc = "send" /\ run' # run)
          => /\ engine.runtime_return \in {"Full", "Minimal"}
             /\ IF channel.dropped
                THEN /\ run'.pc = "panicked"
                     /\ ~run'.result.some
                     /\ channel' = channel
                ELSE run'.pc \in {"deadline", "returned"}
       /\ engine.runtime_return = "None"
          => /\ run'.pc # "send"
             /\ ~run'.sending.some
             /\ channel'.queue = <<>>
             /\ run'.pc = "panicked" => \E id \in DOMAIN trials : panicked'[id] # "none"
             /\ (run.pc = "final" /\ run' # run)
                => (run'.pc = "returned" /\ run'.result.value.ok)]_vars

C26_Witness ==
    /\ run.pc = "panicked"
    /\ channel.dropped
    /\ engine.runtime_return = "Minimal"
    /\ run.sending.some
    /\ run.sending.value.tag = "Final"
    /\ \A id \in DOMAIN panicked : panicked[id] = "none"
    /\ engine.num_trials = 2

\* the driver is in send on a full channel whose Receiver is alive
blocked == run.pc = "send" /\ ~channel.dropped /\ Len(channel.queue) = sync_channel_bound

\* C27: the response channel never holds more than 128 unread messages; with
\* the channel full the driver stays in send, no step of a new round being made,
\* until the consumer takes a message, and then the send can go on.
C27_BackPressure ==
    [][/\ Len(channel.queue) <= sync_channel_bound
       /\ Len(channel'.queue) <= sync_channel_bound
       /\ blocked
          => /\ ~ENABLED Send
             /\ run' = run
             /\ trials' = trials
             /\ engine' = engine
             /\ channel' # channel
                => \/ channel'.dropped
                   \/ Len(channel'.queue) = sync_channel_bound - 1
       /\ (run.pc = "send" /\ ~channel.dropped /\ Len(channel.queue) < sync_channel_bound)
          => ENABLED Send]_vars

C27_Witness ==
    /\ run.pc = "deadline"
    /\ Len(channel.queue) = sync_channel_bound
    /\ Len(channel.received) = 1
    /\ engine.step_counter = sync_channel_bound + 1
    /\ ~channel.dropped

\* the scenario networks
E1 == prime_network.reactions = {} /\ prime_network.solution = [A |-> 5]
E2 ==
    /\ prime_network.reactions = {Reaction(<<Term("A", 1)>>, <<Term("B", 1)>>, 1)}
    /\ prime_network.solution = [A |-> 3, B |-> 0]
E5 ==
    prime_network.reactions = {Reaction(<<>>, <<Term("A", 1)>>, 1),
                               Reaction(<<Term("A", 1)>>, <<>>, 1)}

\* C28: in scenario E1 (no reactions, solution {x: 5}) a trial starts Initial
\* with no possible reaction, is Stable after one step without a panic, keeps
\* the solution {x: 5}, and the final average of the run is {x: 5.0}.
C28_ScenarioE1 ==
    E1 => /\ \A id \in DOMAIN all_trials :
                /\ panicked[id] = "none"
                /\ all_trials[id].reaction_network.possible_reactions = {}
                /\ all_trials[id].reaction_network.solution = [A |-> 5]
                /\ all_trials[id].step_counter = 0
                   => all_trials[id].stability = Initial
                /\ all_trials[id].step_counter >= 1
                   => (all_trials[id].stability = Stable /\ observed[id].stable_at = 1)
          /\ run.pc # "panicked"
          /\ succeeded
             => run.result.value.value.avg = << <<"A", [num |-> 5, den |-> 1]>> >>

\* every trial of the run is completed, none having panicked
all_completed ==
    /\ DOMAIN trials = {}
    /\ DOMAIN engine.completed_trials = 0..(engine.num_trials - 1)
    /\ \A id \in DOMAIN engine.completed_trials :
          /\ panicked[id] = "none"
          /\ engine.completed_trials[id].stability = Stable

\* C29: in scenario E2 ({ A -> B rate 1 } on {A: 3, B: 0}) every trial,
\* whatever its seed, becomes Stable, with the solution {A: 0, B: 3}, and
\* A + B = 3 in every state on the way.
C29_ScenarioE2 ==
    /\ [](E2 => \A id \in DOMAIN all_trials :
                    /\ panicked[id] = "none"
                    /\ all_trials[id].reaction_network.solution["A"]
                        + all_trials[id].reaction_network.solution["B"] = 3
                    /\ all_trials[id].reaction_network.solution["A"] >= 0
                    /\ all_trials[id].stability = Stable
                       => all_trials[id].reaction_network.solution = [A |-> 0, B |-> 3])
    /\ E2 ~> all_completed

C29_Witness ==
    /\ E2
    /\ all_completed
    /\ engine.num_trials = 2
    /\ engine.completed_trials[0].reaction_network.seed
         # engine.completed_trials[1].reaction_network.seed
    /\ \A id \in DOMAIN engine.completed_trials :
          /\ get_solution(engine.completed_trials[id]) = [A |-> 0, B |-> 3]
          /\ observed[id].stable_at = 3

\* C30: in scenario E5 ({ (nothing) -> X rate 1, X -> (nothing) rate 1 },
\* max_semi_stable_steps = 10) every trial, whatever the draws, becomes Stable,
\* and its step counter is then within [11, 22].
C30_ScenarioE5 ==
    /\ [](E5 => \A id \in DOMAIN all_trials :
                    /\ panicked[id] = "none"
                    /\ all_trials[id].max_semi_stable_steps = 10
                    /\ all_trials[id].step_counter <= 22
                    /\ all_trials[id].stability = Stable
                       => /\ observed[id].stable_at >= 11
                          /\ observed[id].stable_at <= 22
                          /\ all_trials[id].step_counter = observed[id].stable_at)
    /\ E5 ~> all_completed

C30_Witness ==
    /\ E5
    /\ all_completed
    /\ succeeded
    /\ observed[0].stable_at = 12
    /\ get_solution(engine.completed_trials[0])["A"] >= 3
    /\ prime_network.solution["A"] = 0

\* C31: a new Builder is Minimal; verbose() turns Minimal into Full and Full
\* into Minimal, two calls giving back the mode, and leaves None; no_response()
\* gives None from every mode, a second call changing nothing; neither
\* changes num_trials, max_runtime or max_semi_stable_steps.
C31_BuilderVerbosity ==
    /\ Builder_new.runtime_return = "Minimal"
    /\ [][/\ calc'.op = "verbose"
             => /\ calc.builder.runtime_return = "Minimal"
                   => calc'.builder.runtime_return = "Full"
                /\ calc.builder.runtime_return = "Full"
                   => calc'.builder.runtime_return = "Minimal"
                /\ calc.builder.runtime_return = "None"
                   => calc'.builder.runtime_return = "None"
                /\ calc.op = "verbose" => verbose(calc'.builder) = calc.builder
                /\ verbose(calc'.builder) = calc.builder
                /\ calc.op = "no_response" => calc'.builder.runtime_return = "None"
          /\ calc'.op = "no_response"
             => /\ calc'.builder.runtime_return = "None"
                /\ calc.op = "no_response" => calc'.builder = calc.builder
                /\ no_response(calc'.builder) = calc'.builder
          /\ calc'.op \in {"verbose", "no_response"}
             => /\ calc'.builder.num_trials = calc.builder.num_trials
                /\ calc'.builder.max_runtime = calc.builder.max_runtime
                /\ calc'.builder.max_semi_stable_steps
                     = calc.builder.max_semi_stable_steps]_vars

C31_Witness ==
    /\ calc.op = "verbose"
    /\ calc.builder.runtime_return = "Full"
    /\ calc.builder.num_trials = 2
    /\ calc.builder.max_runtime = Some(1)
    /\ calc.builder.max_semi_stable_steps = 1

\* C32: the Final result of a run of many trials holds, for the species whose
\* count the network computes (`return` in the Fibonacci network, "B" here),
\* the average of its count over the terminal solutions of the trials: the
\* value that the test expects between 54.5 and 55.5.
C32_AverageOfReturn ==
    (succeeded /\ engine.num_trials >= 1 /\ "B" \in DOMAIN prime_network.solution)
    => \E k \in DOMAIN run.result.value.value.avg :
          /\ run.result.value.value.avg[k][1] = "B"
          /\ \A order \in orders(DOMAIN engine.completed_trials) :
                run.result.value.value.avg[k][2]
                    = Avg(total(completed_solutions(order), "B", 1), engine.num_trials)

\* C33: the k of a trial in SemiStable(k) is within 0..max_semi_stable_steps; a
\* step from SemiStable(k) that stays SemiStable leaves k + 1, and a step from
\* any other state that enters SemiStable leaves 0, so nothing of an earlier
\* count is kept over a visit to Unstable.
C33_SemiStableCounter ==
    [][\A id \in DOMAIN trials :
          /\ trials[id].stability.tag = "SemiStable"
             => /\ trials[id].stability.count >= 0
                /\ trials[id].stability.count <= trials[id].max_semi_stable_steps
          /\ (trials'[id].stability.tag = "SemiStable" /\ trials'[id] # trials[id])
             => /\ trials'[id].stability.count >= 0
                /\ trials'[id].stability.count <= trials'[id].max_semi_stable_steps
                /\ trials'[id].stability.count
                     = IF trials[id].stability.tag = "SemiStable"
                       THEN trials[id].stability.count + 1
                       ELSE 0]_vars

C33_Witness ==
    \E id \in DOMAIN trials :
        /\ trials[id].stability = SemiStable(1)
        /\ trials[id].max_semi_stable_steps = 1
        /\ observed[id].semi_entry = 2
        /\ trials[id].step_counter = 3

\* C34: the reactions and the null_adjacent_reactions of a trial's network are
\* those of the prime network it was cloned from, whatever with_seed(), react()
\* and step() have done to it, and null_adjacent_reactions is the set that
\* construction computes from the reactions.
C34_ReactionsImmutable ==
    \A id \in DOMAIN trials :
        /\ trials[id].reaction_network.reactions = prime_network.reactions
        /\ trials[id].reaction_network.null_adjacent_reactions
                = prime_network.null_adjacent_reactions
        /\ trials[id].reaction_network.null_adjacent_reactions
                = gen_null_adjacent_reactions(prime_network.reactions)

C34_Witness ==
    \E id \in DOMAIN trials :
        /\ trials[id].step_counter >= 2
        /\ Len(observed[id].reacts) = 2
        /\ trials[id].reaction_network.null_adjacent_reactions # {}
        /\ trials[id].reaction_network.null_adjacent_reactions
                # trials[id].reaction_network.reactions
        /\ trials[id].reaction_network.possible_reactions
                # prime_network.possible_reactions

\* C35: build() leaves exactly num_trials processing trials under the keys
\* 0..num_trials-1, each with its key as id, Initial, at step 0, with the
\* Builder's max_semi_stable_steps and with the solution, reactions,
\* possible_reactions and null_adjacent_reactions of the prime network, and no
\* completed trial; no step of building or running changes the prime network.
C35_Build ==
    [][/\ prime_network' = prime_network
       /\ (run.pc = "builder" /\ run'.pc = "built")
          => /\ DOMAIN trials' = 0..(calc.builder.num_trials - 1)
             /\ Cardinality(DOMAIN trials') = calc.builder.num_trials
             /\ engine'.num_trials = calc.builder.num_trials
             /\ DOMAIN engine'.completed_trials = {}
             /\ \A id \in DOMAIN trials' :
                   /\ trials'[id].id = id
                   /\ trials'[id].stability = Initial
                   /\ trials'[id].step_counter = 0
                   /\ trials'[id].max_semi_stable_steps
                        = calc.builder.max_semi_stable_steps
                   /\ trials'[id].reaction_network.solution = prime_network.solution
                   /\ trials'[id].reaction_network.reactions = prime_network.reactions
                   /\ trials'[id].reaction_network.possible_reactions
                        = prime_network.possible_reactions
                   /\ trials'[id].reaction_network.null_adjacent_reactions
                        = prime_network.null_adjacent_reactions]_vars

C35_Witness ==
    /\ run.pc = "built"
    /\ calc.builder.num_trials = 2
    /\ calc.builder.max_semi_stable_steps = 1
    /\ DOMAIN trials = {0, 1}
    /\ trials[0].reaction_network.seed # trials[1].reaction_network.seed
    /\ prime_network.possible_reactions # {}

\* the largest number of steps that a completed trial took to become Stable
most_steps ==
    IF DOMAIN engine.completed_trials = {} THEN 0
    ELSE CHOOSE n \in { observed[id].stable_at : id \in DOMAIN engine.completed_trials } :
            \A id \in DOMAIN engine.completed_trials : observed[id].stable_at <= n

\* C36: a run without max_runtime, whose consumer keeps reading or which has no
\* response channel, of trials that all become Stable after finitely many
\* steps, returns Ok(Final) in the end, and the rounds it has made
\* (step_counter) are then as many as the steps of the trial that took the
\* most steps to become Stable.
C36_EnsembleTermination ==
    /\ [](succeeded => /\ all_completed
                       /\ engine.step_counter = most_steps)
    /\ (run.pc = "builder") ~> succeeded

C36_Witness ==
    /\ succeeded
    /\ engine.num_trials = 2
    /\ observed[0].stable_at = 1
    /\ observed[1].stable_at = 2
    /\ engine.step_counter = 2

\* C37: the solution of a trial has the keys of the initial solution in every
\* state: no react() of a step() adds a species to it or removes one.
C37_KeySetConstant ==
    \A id \in DOMAIN trials :
        DOMAIN trials[id].reaction_network.solution = DOMAIN prime_network.solution

C37_Witness ==
    \E id \in DOMAIN trials :
        /\ trials[id].stability = Stable
        /\ panicked[id] = "none"
        /\ \E k \in DOMAIN observed[id].reacts :
              /\ species_of(observed[id].reacts[k].reaction.products)
                    \ DOMAIN prime_network.solution # {}
              /\ species_of(observed[id].reacts[k].reaction.reactants)
                    \cap DOMAIN prime_network.solution # {}
        /\ trials[id].reaction_network.solution # prime_network.solution

\* C38: simulate() sends nothing in Minimal mode before it returns, and in Full
\* mode one IntermediateStep after every step, the k-th with step counter k
\* and the solution after that step; it returns only from a Stable trial,
\* having sent as its last message the one StableSolution with the id, the
\* solution and the step counter of the trial, and it never steps a Stable
\* trial.
C38_SimulateProtocol ==
    /\ [](\A id \in DOMAIN trials :
            /\ run.pc = "returned" => trials[id].stability = Stable
            /\ count_of(sent, "StableSolution") = (IF run.pc = "returned" THEN 1 ELSE 0)
            /\ run.pc = "returned"
               => sent[Len(sent)]
                    = StableSolution(trials[id].reaction_network.solution,
                                     trials[id].id, trials[id].step_counter)
            /\ trials[id].trial_return = "Minimal"
               => count_of(sent, "IntermediateStep") = 0
            /\ (trials[id].trial_return = "Full" /\ run.pc \in {"loop", "stable", "returned"})
               => count_of(sent, "IntermediateStep") = trials[id].step_counter
            /\ \A k \in 1..count_of(sent, "IntermediateStep") :
                  /\ sent[k].tag = "IntermediateStep"
                  /\ sent[k].step_counter = k
                  /\ sent[k].id = trials[id].id)
    /\ [][\A id \in DOMAIN trials :
            /\ trials'[id] # trials[id] => trials[id].stability # Stable
            /\ (sent' # sent /\ trials[id].trial_return = "Full"
                    /\ run.pc = "intermediate")
               => sent' = Append(sent,
                            IntermediateStep(trials[id].reaction_network.solution,
                                             trials[id].id, trials[id].step_counter))]_vars

C38_Witness ==
    /\ run.pc = "returned"
    /\ Len(sent) = 4
    /\ sent[4].tag = "StableSolution"
    /\ sent[4].step_counter = 3
    /\ sent[3].sln = sent[4].sln
    /\ sent[2].sln # sent[3].sln

\* the steps that trial id has made from a state other than Stable
non_stable_steps(id) ==
    IF observed[id].stable_at > 0 THEN observed[id].stable_at
    ELSE trials[id].step_counter

\* C39: a step() that returns adds exactly 1 to the step counter, from Stable
\* too, and applies no reaction from Stable, 1 or 2 from SemiStable and exactly
\* 1 from Initial and Unstable; the reactions a trial has applied in all (the
\* draws of its generator) are at least as many as its steps from a state
\* other than Stable and at most twice as many.
C39_StepCounting ==
    /\ [][\A id \in DOMAIN trials :
            trials'[id] # trials[id]
            => /\ trials'[id].step_counter = trials[id].step_counter + 1
               /\ trials'[id].reaction_network.prng
                    = trials[id].reaction_network.prng + Len(observed'[id].reacts)
               /\ trials[id].stability.tag = "Stable"
                  => Len(observed'[id].reacts) = 0
               /\ trials[id].stability.tag = "SemiStable"
                  => Len(observed'[id].reacts) \in {1, 2}
               /\ trials[id].stability.tag \in {"Initial", "Unstable"}
                  => Len(observed'[id].reacts) = 1]_vars
    /\ [](\A id \in DOMAIN trials :
            /\ non_stable_steps(id) <= trials[id].reaction_network.prng
            /\ trials[id].reaction_network.prng <= 2 * non_stable_steps(id))

C39_Witness ==
    \E id \in DOMAIN trials :
        /\ trials[id].step_counter = 3
        /\ observed[id].stable_at = 2
        /\ trials[id].reaction_network.prng = 3
        /\ observed[id].reacts = <<>>

====
